---------------------------- MODULE Spec2Model ----------------------------
(***************************************************************************)
(* The four mockup generators of .codex_mockups as one state machine.      *)
(*                                                                         *)
(* A run of a generator is: create the surface, bind the font handles      *)
(* (try / except), issue the draw calls in source order, save the surface, *)
(* print the path.  The state is the position of the run; the draw calls   *)
(* issued so far are the prefix Issued of the script's call sequence.      *)
(*                                                                         *)
(* A draw call is a record: the Pillow operation, its coordinates, radius, *)
(* fill, text, font handle and anchor, as the source passes them (outline  *)
(* colour and stroke width are not recorded).  The fields f, role, grp,    *)
(* ix, iy, tab, tix and sel are annotations: the phone frame whose origin  *)
(* variables the call's coordinates are written in, and the part the call  *)
(* plays in a repeated series, a tab group or a button.  ret is what the   *)
(* phone() call that drew a frame returned.  Texts are abbreviated and     *)
(* their non-ASCII glyphs replaced.                                        *)
(***************************************************************************)
EXTENDS Integers, Sequences, FiniteSets, TLC

\* script : the generator that runs
\* pc     : "fonts", "draw", "print", "done" or "failed"
\* fi     : the number of font handles the try block has bound
\* fonts  : the binding of every font handle
\* glyph  : the glyph advance d.textlength measures with
\* org    : the origin of every phone frame
\* n      : the number of draw calls issued
\* last   : the draw call issued last
\* saved  : the paths img.save has written
\* stdout : the lines printed
\* probe  : a row series laid out item by item (SpecSeries only)
VARIABLES script, pc, fi, fonts, glyph, org, n, last, saved, stdout, probe

vars == <<script, pc, fi, fonts, glyph, org, n, last, saved, stdout, probe>>

(***************************************************************************)
(* Bounds of the model.                                                    *)
(***************************************************************************)
\* textlength() is modelled as Len(text) * glyph, glyph in 1..MaxGlyph
MaxGlyph == 3
\* a relocated frame origin is moved by 0..MaxShift pixels in x and in y
MaxShift == 2
\* the generic row series has 0..MaxItems items,
\* a stride of 1..MaxStride and an item extent of 1..MaxExtent
MaxItems == 3
MaxStride == 4
MaxExtent == 4

Scripts == {"maps_redesign", "maps_flow", "email_keep", "email_mockups"}

(***************************************************************************)
(* Sequences.                                                              *)
(***************************************************************************)
RECURSIVE Cat(_)
Cat(ss) == IF ss = <<>> THEN <<>> ELSE Head(ss) \o Cat(Tail(ss))

Abs(i) == IF i < 0 THEN -i ELSE i

(***************************************************************************)
(* Draw calls.                                                             *)
(***************************************************************************)
\* x2 is twice the x coordinate of a text anchor: a centred label is drawn
\* at xx + (w - tw)/2, which is a half pixel when w - tw is odd.
\* hx, hy: the end point of an arrow-head segment relative to its start,
\* in 1/1000 pixel.
Call(op, f, x0, y0, x1, y1) ==
  [op |-> op, f |-> f, x0 |-> x0, y0 |-> y0, x1 |-> x1, y1 |-> y1,
   x2 |-> 2 * x0, hx |-> 0, hy |-> 0,
   r |-> 0, fill |-> "", txt |-> "", font |-> "", anchor |-> "",
   role |-> "", grp |-> "", ix |-> 0, iy |-> 0,
   tab |-> "", tix |-> 0, sel |-> FALSE, ret |-> <<>>]

\* d.rounded_rectangle((x0, y0, x1, y1), radius=r, fill=fill)
RR(f, x0, y0, x1, y1, r, fill) ==
  [Call("rr", f, x0, y0, x1, y1) EXCEPT !.r = r, !.fill = fill]

\* d.rectangle((x0, y0, x1, y1), fill=fill)
Rect(f, x0, y0, x1, y1, fill) ==
  [Call("rect", f, x0, y0, x1, y1) EXCEPT !.fill = fill]

\* d.ellipse((x0, y0, x1, y1), fill=fill)
Ellipse(f, x0, y0, x1, y1, fill) ==
  [Call("ellipse", f, x0, y0, x1, y1) EXCEPT !.fill = fill]

\* d.line((x0, y0, x1, y1), fill=fill)
Line(f, x0, y0, x1, y1, fill) ==
  [Call("line", f, x0, y0, x1, y1) EXCEPT !.fill = fill]

\* d.text((x, y), txt, font=font, fill=fill, anchor=anchor)
TextA(f, x, y, txt, font, fill, anchor) ==
  [Call("text", f, x, y, x, y) EXCEPT
     !.txt = txt, !.font = font, !.fill = fill, !.anchor = anchor]

\* d.text((x, y), txt, font=font, fill=fill): Pillow's default anchor
Text(f, x, y, txt, font, fill) == TextA(f, x, y, txt, font, fill, "la")

\* d.text((xx + (w - tw)/2, y), ...): the anchor x is (2*xx + w - tw)/2
TextHalf(f, twiceX, y, txt, font, fill) ==
  [TextA(f, twiceX \div 2, y, txt, font, fill, "la") EXCEPT !.x2 = twiceX]

\* d.textlength(text, font=font): the advance of the string in the font.
\* Pillow is not part of the repository; the width is the number of
\* characters times the glyph advance of the bound font.
textlength(txt, g) == Len(txt) * g

\* the annotations of a call
Tag(c, role, grp, ix, iy) ==
  [c EXCEPT !.role = role, !.grp = grp, !.ix = ix, !.iy = iy]

\* the call belongs to tab number tix of tab group tab, drawn in state sel
Tab(c, tab, tix, sel) == [c EXCEPT !.tab = tab, !.tix = tix, !.sel = sel]

IsBox(c) == c.op \in {"rr", "rect", "ellipse"}

(***************************************************************************)
(* math.atan2, math.cos, math.sin in fixed point.  An angle is the pair of *)
(* its cosine and sine in 1/1000.                                          *)
(***************************************************************************)
RECURSIVE SqrtIn(_, _, _)
SqrtIn(k, lo, hi) ==
  IF lo >= hi THEN lo
  ELSE LET mid == (lo + hi + 1) \div 2
       IN  IF mid * mid <= k THEN SqrtIn(k, mid, hi) ELSE SqrtIn(k, lo, mid - 1)

\* floor(sqrt(k)), k < 2^30
Isqrt(k) == SqrtIn(k, 0, 32767)

\* rounded division
RDiv(a, b) == (2 * a + b) \div (2 * b)

\* math.atan2(dy, dx); atan2(0, 0) is 0
atan2(dy, dx) ==
  IF dx = 0 /\ dy = 0 THEN [c |-> 1000, s |-> 0]
  ELSE LET r10 == Isqrt(100 * (dx * dx + dy * dy))
       IN  [c |-> RDiv(dx * 10000, r10), s |-> RDiv(dy * 10000, r10)]

\* cos(2.6) = -0.856889, sin(2.6) = 0.515501
Cos26 == -857
Sin26 == 516

\* ang + 2.6 and ang - 2.6
AngPlus26(a) ==
  [c |-> RDiv(a.c * Cos26 - a.s * Sin26, 1000),
   s |-> RDiv(a.s * Cos26 + a.c * Sin26, 1000)]

AngMinus26(a) ==
  [c |-> RDiv(a.c * Cos26 + a.s * Sin26, 1000),
   s |-> RDiv(a.s * Cos26 - a.c * Sin26, 1000)]

cos(a) == a.c
sin(a) == a.s


\* the calls of a sequence, marked as one group
InGrp(g, calls) == [k \in DOMAIN calls |-> [calls[k] EXCEPT !.grp = g]]

(***************************************************************************)
(* generate_maps_flow_mockup.py                                            *)
(***************************************************************************)
MF_W == 1600
MF_H == 900

MF_Fonts ==
  << [h |-> "ft", file |-> "SFNSDisplay.ttf", size |-> 44],
     [h |-> "fh", file |-> "SFNSDisplay.ttf", size |-> 28],
     [h |-> "fb", file |-> "SFNSDisplay.ttf", size |-> 22],
     [h |-> "fs", file |-> "SFNSDisplay.ttf", size |-> 18] >>

\* except: ft=fh=fb=fs=ImageFont.load_default()
MF_FontFallback == {"ft", "fh", "fb", "fs"}

\* a variant whose default radius is 180
MF_rr_Wide(x0, y0, x1, y1, fill) == RR(0, x0, y0, x1, y1, 180, fill)

\* def rr(xy, r=18, fill=(255,255,255), outline=(210,214,220), w=2)
MF_rr(x0, y0, x1, y1, fill) == RR(0, x0, y0, x1, y1, 18, fill)

\* a variant whose head grows with the shaft: a quarter of its length
arrowLen_Scaled(x1, y1, x2, y2) ==
  Isqrt((x2 - x1) * (x2 - x1) + (y2 - y1) * (y2 - y1)) \div 4

\* the length l of an arrow-head segment
arrowLen(x1, y1, x2, y2) == 12

\* the directions a1, a2 of the two arrow-head segments
arrowAngles(ang) == << AngPlus26(ang), AngMinus26(ang) >>

\* def arrow(x1,y1,x2,y2,c=(96,110,130),w=3): the shaft, then the segments
\* (x2, y2, x2 + l*cos(a), y2 + l*sin(a)) for a = a1, a2
arrow(x1, y1, x2, y2) ==
  LET ang == atan2(y2 - y1, x2 - x1)
      l   == arrowLen(x1, y1, x2, y2)
      a   == arrowAngles(ang)
      head(k) ==
        [Line(0, x2, y2, x2 + RDiv(l * cos(a[k]), 1000),
                         y2 + RDiv(l * sin(a[k]), 1000), "(96,110,130)")
           EXCEPT !.hx = l * cos(a[k]), !.hy = l * sin(a[k]),
                  !.role = "head", !.ix = k]
  IN  << [Line(0, x1, y1, x2, y2, "(96,110,130)") EXCEPT !.role = "shaft"],
         head(1), head(2) >>

MF_SavedLines ==
  << "* Folder cards + mini map + current location",
     "* Tap folder -> open filtered timeline",
     "* Tap place -> place detail + visit history",
     "* Long press place -> rename/move/favorite" >>

MF_PeopleLines ==
  << "* Grouped list (Family/Friends/Work/Custom)",
     "* Tap person -> profile + linked places",
     "* Quick chip: 'Show visits with this person'",
     "* Favorites row for one-tap access" >>

MF_TimelineLines ==
  << "* Calendar strip + day timeline cards",
     "* Card actions: notes, people, merge, delete",
     "* Filter chips: Folder, Person, Date range",
     "* Swipe-back from all detail screens" >>

MF_SharedLines ==
  << "1) Unified filter state persists across tab changes.",
     "2) Location visit events auto-refresh Timeline.",
     "3) Person-place linkage from a timeline visit." >>

MF_DrillLines ==
  << "* Place Detail: map preview, visit streaks, related people.",
     "* Person Detail: relationship, places visited together.",
     "* Day Detail: full timeline cards, AI day summary." >>

\* for i,t in enumerate(lines): d.text((x, y + i*stride), t, font=fs, fill=fill)
MF_TextLines(grp, x, y, stride, lines, fill) ==
  [k \in 1..Len(lines) |->
     LET i == k - 1
     IN  Tag(Text(0, x, y + i * stride, lines[k], "fs", fill), "line", grp, 0, i)]

MF_Calls ==
  Cat(<<
    \* header
    << Text(0, 40, 26, "Maps 3-Page UX Flow (Saved / People / Timeline)", "ft", "(20,24,31)"),
       Text(0, 40, 84, "Keep tabs pinned in top center", "fs", "(92,102,119)") >>,
    \* nodes
    << Tag(MF_rr(70, 170, 520, 400, "(255,255,255)"), "panel", "", 0, 0),
       Text(0, 96, 196, "Saved Locations", "fh", "(17,24,39)") >>,
    MF_TextLines("mf.saved", 96, 250, 34, MF_SavedLines, "(71,85,105)"),
    << Tag(MF_rr(560, 170, 1030, 400, "(255,255,255)"), "panel", "", 0, 0),
       Text(0, 586, 196, "People", "fh", "(17,24,39)") >>,
    MF_TextLines("mf.people", 586, 250, 34, MF_PeopleLines, "(71,85,105)"),
    << Tag(MF_rr(1070, 170, 1530, 400, "(255,255,255)"), "panel", "", 0, 0),
       Text(0, 1096, 196, "Timeline", "fh", "(17,24,39)") >>,
    MF_TextLines("mf.timeline", 1096, 250, 34, MF_TimelineLines, "(71,85,105)"),
    \* arrows top row
    InGrp("mf.arrow1", arrow(520, 280, 560, 280)),
    InGrp("mf.arrow2", arrow(1030, 280, 1070, 280)),
    InGrp("mf.arrow3", arrow(1070, 330, 520, 330)),
    \* shared data layer
    << Tag(MF_rr(200, 480, 1410, 640, "(243,246,252)"), "panel", "", 0, 0),
       Text(0, 230, 510, "Shared Context Layer (cross-page glue)", "fb", "(30,41,59)") >>,
    MF_TextLines("mf.shared", 230, 550, 30, MF_SharedLines, "(51,65,85)"),
    \* drilldown layer
    << Tag(MF_rr(70, 700, 1530, 850, "(255,255,255)"), "panel", "", 0, 0),
       Text(0, 96, 726, "Recommended drill-down pages (full screen + back swipe)", "fb", "(17,24,39)") >>,
    MF_TextLines("mf.drill", 96, 764, 28, MF_DrillLines, "(71,85,105)"),
    \* arrows to shared layer
    InGrp("mf.arrow4", arrow(295, 400, 420, 480)),
    InGrp("mf.arrow5", arrow(790, 400, 800, 480)),
    InGrp("mf.arrow6", arrow(1300, 400, 1180, 480))
  >>)

(***************************************************************************)
(* generate_maps_redesign_mockup.py                                        *)
(***************************************************************************)
MR_W == 1800
MR_H == 980
MR_pw == 540
MR_ph == 860

MR_Fonts ==
  << [h |-> "f_title", file |-> "SFNSDisplay.ttf", size |-> 42],
     [h |-> "f_sub",   file |-> "SFNSDisplay.ttf", size |-> 22],
     [h |-> "f_h",     file |-> "SFNSDisplay.ttf", size |-> 28],
     [h |-> "f_b",     file |-> "SFNSDisplay.ttf", size |-> 20],
     [h |-> "f_sm",    file |-> "SFNSDisplay.ttf", size |-> 17],
     [h |-> "f_xs",    file |-> "SFNSDisplay.ttf", size |-> 14] >>

\* a variant whose except clause binds the first handle only
MR_FontFallback_First == {"f_title"}

\* except: f_title = load_default(); f_sub = f_h = f_b = f_sm = f_xs = load_default()
MR_FontFallback == {"f_title"} \cup {"f_sub", "f_h", "f_b", "f_sm", "f_xs"}

\* the frame origins: x1, y = 36, 106; x2 = 630; x3 = 1224 (one y for all)
MR_Origins == << <<36, 106>>, <<630, 106>>, <<1224, 106>> >>

\* return pw, ph
MR_phoneRet(x0, y0) == << MR_pw, MR_ph >>

\* a variant that draws the labels only
MR_tab_Plain(f, k, lab, cx, y0, selected_tab) ==
  << Tab(TextA(f, cx, y0 + 95, lab, "f_sm",
               IF lab = selected_tab THEN "accent_text" ELSE "muted", "mm"),
         "mr.tabs", k, lab = selected_tab) >>

\* a variant that also renders the first tab selected
MR_tab_First(f, k, lab, cx, y0, selected_tab) ==
  LET is_sel == lab = selected_tab \/ k = 1
  IN  (IF is_sel
         THEN << Tab(RR(f, cx - 54, y0 + 76, cx + 54, y0 + 114, 19, "accent"),
                     "mr.tabs", k, TRUE) >>
         ELSE <<>>)
      \o << Tab(TextA(f, cx, y0 + 95, lab, "f_sm",
                      IF is_sel THEN "accent_text" ELSE "muted", "mm"),
                "mr.tabs", k, is_sel) >>

\* the tab bar of phone(): the selected tab gets a chip, every tab a label
MR_tab(f, k, lab, cx, y0, selected_tab) ==
  LET is_sel == lab = selected_tab
  IN  (IF is_sel
         THEN << Tab(RR(f, cx - 54, y0 + 76, cx + 54, y0 + 114, 19, "accent"),
                     "mr.tabs", k, TRUE) >>
         ELSE <<>>)
      \o << Tab(TextA(f, cx, y0 + 95, lab, "f_sm",
                      IF is_sel THEN "accent_text" ELSE "muted", "mm"),
                "mr.tabs", k, is_sel) >>

\* def phone(x0, y0, title, selected_tab)
MR_phone(f, x0, y0, title, selected_tab) ==
  LET pw == MR_pw
      ph == MR_ph
      labels == << "Saved", "People", "Timeline" >>
      tx == << x0 + 168, x0 + 270, x0 + 382 >>
  IN  << [Tag(RR(f, x0, y0, x0 + pw, y0 + ph, 34, "(9,11,15)"), "frame", "", 0, 0)
            EXCEPT !.ret = MR_phoneRet(x0, y0)],
         \* dynamic island
         Tag(RR(f, x0 + 205, y0 + 18, x0 + 335, y0 + 34, 8, "(4,5,7)"), "notch", "", 0, 0),
         \* header
         Tag(RR(f, x0 + 22, y0 + 54, x0 + pw - 22, y0 + 136, 24, "card"), "card", "", 0, 0),
         \* left button
         Tag(RR(f, x0 + 36, y0 + 72, x0 + 88, y0 + 118, 12, "chip_idle"), "btn", "mr.menu", 0, 0),
         Tag(TextA(f, x0 + 56, y0 + 84, "=", "f_b", "text", "mm"), "btnlabel", "mr.menu", 0, 0),
         \* right search
         Tag(RR(f, x0 + pw - 88, y0 + 72, x0 + pw - 36, y0 + 118, 12, "chip_idle"), "btn", "mr.search", 0, 0),
         Tag(TextA(f, x0 + pw - 62, y0 + 94, "?", "f_b", "text", "mm"), "btnlabel", "mr.search", 0, 0),
         \* tab bar center
         Tag(RR(f, x0 + 108, y0 + 72, x0 + pw - 108, y0 + 118, 23, "(32,36,45)"), "tabbar", "mr.tabs", 0, 0) >>
      \o Cat([k \in 1..3 |-> MR_tab(f, k, labels[k], tx[k], y0, selected_tab)])
      \o << Tag(Text(f, x0 + 30, y0 + 165, title, "f_h", "text"), "title", "", 0, 0) >>

\* x += 162
MR_pillStep == 162

\* a variant whose running x drifts by the item number
RECURSIVE MR_pills_Drift(_, _, _, _, _, _)
MR_pills_Drift(f, grp, x, y0, labels, i) ==
  IF i > Len(labels) THEN <<>>
  ELSE << Tag(RR(f, x, y0, x + 150, y0 + 78, 16, "card2"), "item", grp, i - 1, 0),
          Tag(Text(f, x + 14, y0 + 17, labels[i][1], "f_xs", "muted"), "part", grp, i - 1, 0),
          Tag(Text(f, x + 14, y0 + 43, labels[i][2], "f_b", "text"), "part", grp, i - 1, 0) >>
       \o MR_pills_Drift(f, grp, x + 162 + i, y0, labels, i + 1)

\* def stat_pills(x0, y0, labels): the loop from item i on, the running x
RECURSIVE MR_pills(_, _, _, _, _, _)
MR_pills(f, grp, x, y0, labels, i) ==
  IF i > Len(labels) THEN <<>>
  ELSE << Tag(RR(f, x, y0, x + 150, y0 + 78, 16, "card2"), "item", grp, i - 1, 0),
          Tag(Text(f, x + 14, y0 + 17, labels[i][1], "f_xs", "muted"), "part", grp, i - 1, 0),
          Tag(Text(f, x + 14, y0 + 43, labels[i][2], "f_b", "text"), "part", grp, i - 1, 0) >>
       \o MR_pills(f, grp, x + MR_pillStep, y0, labels, i + 1)

\* a variant that starts the pills at the absolute x of the first screen
MR_stat_pills_Abs(f, grp, x0, y0, labels) == MR_pills(f, grp, 60, y0, labels, 1)

MR_stat_pills(f, grp, x0, y0, labels) == MR_pills(f, grp, x0, y0, labels, 1)

\* --- Screen 1: Saved ---
MR_Screen1(x1, y) ==
  LET ret == MR_phoneRet(x1, y)
      pw == ret[1]
      ph == ret[2]
      pins == << <<x1 + 130, y + 454>>, <<x1 + 240, y + 478>>,
                 <<x1 + 325, y + 440>>, <<x1 + 420, y + 490>> >>
      folders == << <<"Home", "11">>, <<"Work", "7">>,
                    <<"Food & Dining", "9">>, <<"Travel", "5">> >>
  IN  Cat(<<
    MR_phone(1, x1, y, "Saved Locations", "Saved"),
    \* current location
    << Tag(RR(1, x1 + 24, y + 198, x1 + pw - 24, y + 268, 18, "card"), "card", "", 0, 0),
       Text(1, x1 + 40, y + 216, "Current location", "f_xs", "muted"),
       Text(1, x1 + 40, y + 240, "Home - 3h 42m", "f_b", "(95,220,130)"),
       Tag(TextA(1, x1 + pw - 44, y + 236, "Open", "f_xs", "accent_text", "mm"), "btnlabel", "mr.open", 0, 0),
       Tag(RR(1, x1 + pw - 86, y + 218, x1 + pw - 26, y + 252, 14, "accent"), "btn", "mr.open", 0, 0) >>,
    MR_stat_pills(1, "mr.pills1", x1 + 24, y + 282,
                  << <<"Saved", "32">>, <<"Favorites", "8">>, <<"Active today", "4">> >>),
    \* mini map
    << Tag(RR(1, x1 + 24, y + 372, x1 + pw - 24, y + 520, 20, "card"), "card", "", 0, 0),
       Text(1, x1 + 42, y + 392, "Map Snapshot", "f_sm", "text"),
       Text(1, x1 + 42, y + 416, "Tap cluster to open folder list", "f_xs", "muted") >>,
    \* fake map lines
    [k \in 1..6 |->
       LET i == k - 1
       IN  Tag(Line(1, x1 + 44 + i * 70, y + 452, x1 + 72 + i * 70, y + 488, "line"),
               "stroke", "mr.maplines", i, 0)],
    Cat([k \in 1..4 |->
       LET px == pins[k][1]
           py == pins[k][2]
       IN  << Tag(RR(1, px - 8, py - 8, px + 8, py + 8, 8, "(220,80,80)"), "pin", "mr.pins", k - 1, 0),
              Tag(RR(1, px - 3, py - 3, px + 3, py + 3, 3, "(250,240,240)"), "pin", "mr.pins", k - 1, 0) >>]),
    \* folders card
    << Tag(RR(1, x1 + 24, y + 534, x1 + pw - 24, y + 816, 20, "card"), "card", "mr.folders", 0, 0),
       Text(1, x1 + 42, y + 554, "Folders", "f_sm", "text") >>,
    Cat([k \in 1..4 |->
       LET i == k - 1
           yy == y + 584 + i * 54
       IN  << Tag(RR(1, x1 + 40, yy, x1 + pw - 40, yy + 42, 12, "card2"), "item", "mr.folders", 0, i),
              Tag(TextA(1, x1 + 54, yy + 21, folders[k][1], "f_xs", "text", "lm"), "part", "mr.folders", 0, i),
              Tag(TextA(1, x1 + pw - 58, yy + 21, folders[k][2], "f_xs", "muted", "rm"), "part", "mr.folders", 0, i) >>])
  >>)

\* yy += 92
MR_peopleStep == 92

\* for g, names in rows: ...; yy += 92 (the loop from row i on, the running yy)
RECURSIVE MR_peopleRows(_, _, _, _)
MR_peopleRows(x2, yy, rows, i) ==
  IF i > Len(rows) THEN <<>>
  ELSE << Tag(Text(2, x2 + 42, yy, rows[i][1], "f_xs", "muted"), "part", "mr.people", 0, i - 1),
          Tag(RR(2, x2 + 40, yy + 20, x2 + 500, yy + 62, 12, "card2"), "item", "mr.people", 0, i - 1),
          Tag(TextA(2, x2 + 52, yy + 42, rows[i][2], "f_xs", "text", "lm"), "part", "mr.people", 0, i - 1),
          Tag(TextA(2, x2 + 486, yy + 42, "> timeline", "f_xs", "(180,190,205)", "rm"), "part", "mr.people", 0, i - 1) >>
       \o MR_peopleRows(x2, yy + MR_peopleStep, rows, i + 1)

\* --- Screen 2: People ---
MR_Screen2(x2, y) ==
  LET together == << <<"Sujus", "18 visits">>, <<"Liliana", "12 visits">>, <<"Ragulan", "10 visits">> >>
      rows == << <<"FAMILY - 8", "Mom, Dad, Sister">>,
                 <<"FRIENDS - 14", "Sujus, Ragulan, Amaan">>,
                 <<"WORK - 9", "Manager, Team Lead">>,
                 <<"OTHER - 15", "Dentist, Trainer, Barber">> >>
  IN  Cat(<<
    MR_phone(2, x2, y, "People", "People"),
    MR_stat_pills(2, "mr.pills2", x2 + 24, y + 198,
                  << <<"People", "46">>, <<"With visits", "31">>, <<"New month", "5">> >>),
    << Tag(RR(2, x2 + 24, y + 288, x2 + 540 - 24, y + 390, 20, "card"), "card", "mr.together", 0, 0),
       Text(2, x2 + 42, y + 308, "Frequent Together", "f_sm", "text") >>,
    Cat([k \in 1..3 |->
       LET i == k - 1
           xx == x2 + 42 + i * 160
       IN  << Tag(RR(2, xx, y + 334, xx + 148, y + 374, 12, "card2"), "item", "mr.together", i, 0),
              Tag(Text(2, xx + 12, y + 348, together[k][1], "f_xs", "text"), "part", "mr.together", i, 0),
              Tag(Text(2, xx + 12, y + 364, together[k][2], "f_xs", "muted"), "part", "mr.together", i, 0) >>]),
    << Tag(RR(2, x2 + 24, y + 406, x2 + 540 - 24, y + 816, 20, "card"), "card", "mr.people", 0, 0),
       Text(2, x2 + 42, y + 426, "People List", "f_sm", "text") >>,
    \* relation groups + rows
    MR_peopleRows(x2, y + 454, rows, 1)
  >>)

\* yy += 98
MR_visitStep == 98

\* for t,p,meta in visit_rows: ...; yy += 98
RECURSIVE MR_visitRows(_, _, _, _)
MR_visitRows(x3, yy, rows, i) ==
  IF i > Len(rows) THEN <<>>
  ELSE << Tag(RR(3, x3 + 40, yy, x3 + 500, yy + 88, 14, "card2"), "item", "mr.visits", 0, i - 1),
          Tag(Text(3, x3 + 54, yy + 18, rows[i][1], "f_xs", "muted"), "part", "mr.visits", 0, i - 1),
          Tag(Text(3, x3 + 54, yy + 42, rows[i][2], "f_b", "text"), "part", "mr.visits", 0, i - 1),
          Tag(Text(3, x3 + 54, yy + 64, rows[i][3], "f_xs", "muted"), "part", "mr.visits", 0, i - 1),
          Tag(TextA(3, x3 + 486, yy + 42, "...", "f_sm", "muted", "rm"), "part", "mr.visits", 0, i - 1) >>
       \o MR_visitRows(x3, yy + MR_visitStep, rows, i + 1)

\* --- Screen 3: Timeline ---
MR_Screen3(x3, y) ==
  LET days == << "M 17", "T 18", "W 19", "T 20", "F 21", "S 22" >>
      visit_rows == << <<"9:12 AM", "Home", "with Sujus - note added">>,
                       <<"11:30 AM", "RBC Office", "with Team - 2h 10m">>,
                       <<"2:05 PM", "Mos Mos Coffee", "solo - quick stop">>,
                       <<"6:15 PM", "GoodLife Gym", "with Ragulan - workout">> >>
  IN  Cat(<<
    MR_phone(3, x3, y, "Timeline", "Timeline"),
    << Tag(RR(3, x3 + 24, y + 198, x3 + 540 - 24, y + 258, 16, "card"), "card", "", 0, 0),
       Text(3, x3 + 42, y + 218, "Thursday, Feb 20", "f_sm", "text"),
       Text(3, x3 + 42, y + 240, "6 visits - 5h 24m", "f_xs", "muted") >>,
    \* mini week strip
    << Tag(RR(3, x3 + 24, y + 272, x3 + 540 - 24, y + 328, 16, "card"), "card", "mr.week", 0, 0) >>,
    Cat([k \in 1..6 |->
       LET i == k - 1
           xx == x3 + 40 + i * 79
           day == days[k]
           sel == (day = "T 20")
       IN  << Tab(Tag(RR(3, xx, y + 284, xx + 68, y + 316, 12,
                         IF sel THEN "accent" ELSE "chip_idle"), "item", "mr.week", i, 0),
                  "mr.week", k, sel),
              Tab(Tag(TextA(3, xx + 34, y + 300, day, "f_xs",
                            IF sel THEN "accent_text" ELSE "muted", "mm"), "part", "mr.week", i, 0),
                  "mr.week", k, sel) >>]),
    << Tag(RR(3, x3 + 24, y + 342, x3 + 540 - 24, y + 816, 20, "card"), "card", "mr.visits", 0, 0),
       Text(3, x3 + 42, y + 362, "Visits", "f_sm", "text") >>,
    MR_visitRows(x3, y + 390, visit_rows, 1)
  >>)

\* the draw calls of the script, in source order; o are the frame origins
MR_Calls(o) ==
  LET x1 == o[1][1]
      y  == o[1][2]
      x2 == o[2][1]
      x3 == o[3][1]
  IN  Cat(<<
    \* Title
    << Text(0, 42, 26, "Seline Maps Redesign (3 Tabs Restored, Same Placement)", "f_title", "text"),
       Text(0, 42, 76, "Concept: Keep Saved / People / Timeline as primary pages", "f_sub", "muted") >>,
    MR_Screen1(x1, y),
    MR_Screen2(x2, y),
    MR_Screen3(x3, y),
    \* UX connection panel
    << Tag(RR(0, 36, 900, 1764, 964, 16, "(18,22,28)"), "panel", "", 0, 0),
       Text(0, 52, 914, "Connected UX recommendations: 1) ... 2) ...", "f_xs", "(185,195,210)"),
       Text(0, 52, 938, "3) ... 4) ...", "f_xs", "(185,195,210)") >>
  >>)

(***************************************************************************)
(* generate_email_redesign_keep_sidebar_calendar.py                        *)
(***************************************************************************)
EK_W == 2400
EK_H == 1550
\* def phone(x, y, w=540, h=1280, label='')
EK_w == 540
EK_h == 1280

\* a variant with the drawer as wide as the frame
EK_drawer_w_Wide == EK_w

\* drawer_w = 365
EK_drawer_w == 365

EK_Fonts ==
  << [h |-> "f_title", file |-> "Arial Bold.ttf", size |-> 42],
     [h |-> "f_sub",   file |-> "Arial.ttf",      size |-> 22],
     [h |-> "f_h",     file |-> "Arial Bold.ttf", size |-> 26],
     [h |-> "f_b",     file |-> "Arial.ttf",      size |-> 18],
     [h |-> "f_s",     file |-> "Arial.ttf",      size |-> 15] >>

\* except: f_title = f_sub = f_h = f_b = f_s = ImageFont.load_default()
EK_FontFallback == {"f_title", "f_sub", "f_h", "f_b", "f_s"}

\* a variant with the frames 520 pixels apart
EK_Origins_Tight == << <<40, 170>>, <<560, 170>>, <<1080, 170>>, <<1600, 170>> >>

\* the origins passed to phone(): (40, 170), (620, 170), (1200, 170), (1780, 170)
EK_Origins == << <<40, 170>>, <<620, 170>>, <<1200, 170>>, <<1780, 170>> >>

\* a variant that returns the size transposed
EK_phoneRet_Swapped(x, y, w, h) == << x, y, h, w >>

\* return x, y, w, h
EK_phoneRet(x, y, w, h) == << x, y, w, h >>

EK_phone(f, x, y, w, h, label) ==
  << [Tag(RR(f, x, y, x + w, y + h, 52, "#0f1218"), "frame", "", 0, 0)
        EXCEPT !.ret = EK_phoneRet(x, y, w, h)],
     Tag(RR(f, x + 190, y + 20, x + w - 190, y + 54, 15, "BLACK"), "notch", "", 0, 0) >>
  \o (IF label # ""
        THEN << Tag(Text(f, x + 24, y + 74, label, "f_h", "WHITE"), "title", "", 0, 0) >>
        ELSE <<>>)

\* Screen 1 - Hub with persistent sidebar entry + compact insight
EK_Screen1(x, y) ==
  LET ret == EK_phoneRet(x, y, EK_w, EK_h)
      x1 == ret[1]
      y1 == ret[2]
      w1 == ret[3]
      h1 == ret[4]
      insight == << <<"New", "18">>, <<"Priority", "4">>, <<"Follow-up", "7">> >>
      feed == << <<"RBC Royal Bank", "Interac e-Transfer accepted">>,
                 <<"Airbnb", "Trip update and itinerary">>,
                 <<"Your Lisgar neighbours", "Petition update + comments">> >>
  IN  Cat(<<
    EK_phone(1, x, y, EK_w, EK_h, "Email Hub (Primary)"),
    \* top bar
    << Tag(RR(1, x1 + 24, y1 + 118, x1 + w1 - 24, y1 + 182, 24, "CARD2"), "card", "", 0, 0),
       \* hamburger left
       Tag(RR(1, x1 + 36, y1 + 130, x1 + 98, y1 + 170, 14, "#232938"), "btn", "ek.menu", 0, 0),
       Tag(Text(1, x1 + 58, y1 + 140, "=", "f_b", "WHITE"), "btnlabel", "ek.menu", 0, 0),
       \* segmented center
       Tag(RR(1, x1 + 108, y1 + 130, x1 + 382, y1 + 170, 18, "#232938"), "tabbar", "ek.seg", 0, 0),
       Tab(RR(1, x1 + 112, y1 + 134, x1 + 196, y1 + 166, 14, "ORANGE"), "ek.seg", 1, TRUE),
       Tab(Text(1, x1 + 136, y1 + 142, "Inbox", "f_s", "white"), "ek.seg", 1, TRUE),
       Tab(Text(1, x1 + 224, y1 + 142, "Sent", "f_s", "MUTED"), "ek.seg", 2, FALSE),
       Tab(Text(1, x1 + 288, y1 + 142, "Calendar", "f_s", "MUTED"), "ek.seg", 3, FALSE),
       \* search
       Tag(RR(1, x1 + w1 - 98, y1 + 130, x1 + w1 - 36, y1 + 170, 14, "#232938"), "btn", "ek.search", 0, 0),
       Tag(Text(1, x1 + w1 - 76, y1 + 141, "?", "f_b", "WHITE"), "btnlabel", "ek.search", 0, 0) >>,
    \* insight cards
    Cat([k \in 1..3 |->
       LET i == k - 1
           xx == x1 + 24 + i * 167
       IN  << Tag(RR(1, xx, y1 + 200, xx + 155, y1 + 282, 16, "CARD"), "item", "ek.insight", i, 0),
              Tag(Text(1, xx + 12, y1 + 214, insight[k][1], "f_s", "MUTED"), "part", "ek.insight", i, 0),
              Tag(Text(1, xx + 12, y1 + 244, insight[k][2], "f_h", "ORANGE"), "part", "ek.insight", i, 0) >>]),
    \* feed cluster
    << Text(1, x1 + 24, y1 + 306, "Inbox Feed", "f_h", "WHITE") >>,
    Cat([k \in 1..3 |->
       LET i == k - 1
           yy == y1 + 342 + i * 104
       IN  << Tag(RR(1, x1 + 24, yy, x1 + w1 - 24, yy + 90, 14, "CARD2"), "item", "ek.feed", 0, i),
              Tag(Ellipse(1, x1 + 38, yy + 22, x1 + 74, yy + 58, "#667086"), "part", "ek.feed", 0, i),
              Tag(Text(1, x1 + 86, yy + 26, feed[k][1], "f_b", "WHITE"), "part", "ek.feed", 0, i),
              Tag(Text(1, x1 + 86, yy + 54, feed[k][2], "f_s", "MUTED"), "part", "ek.feed", 0, i) >>]),
    \* CTAs
    << Tag(RR(1, x1 + 24, y1 + 676, x1 + 240, y1 + 722, 18, "ORANGE"), "btn", "ek.cta1", 0, 0),
       Tag(Text(1, x1 + 80, y1 + 689, "Open Inbox", "f_b", "white"), "btnlabel", "ek.cta1", 0, 0),
       Tag(RR(1, x1 + 252, y1 + 676, x1 + w1 - 24, y1 + 722, 18, "#262c38"), "btn", "ek.cta2", 0, 0),
       Tag(Text(1, x1 + 320, y1 + 689, "Open Calendar", "f_b", "WHITE"), "btnlabel", "ek.cta2", 0, 0),
       \* compose
       Tag(RR(1, x1 + 190, y1 + h1 - 96, x1 + w1 - 190, y1 + h1 - 42, 26, "ORANGE"), "btn", "ek.compose", 0, 0),
       Tag(Text(1, x1 + 236, y1 + h1 - 80, "+ Compose", "f_b", "white"), "btnlabel", "ek.compose", 0, 0) >>
  >>)

\* Screen 2 - Sidebar drawer retained
EK_Screen2(x, y) ==
  LET ret == EK_phoneRet(x, y, EK_w, EK_h)
      x2 == ret[1]
      y2 == ret[2]
      w2 == ret[3]
      h2 == ret[4]
      drawer_w == EK_drawer_w
      browse == << <<"Pinned", "4">>, <<"Unfiled", "12">>, <<"Receipts", "130">>,
                   <<"Travel", "12">>, <<"Work", "36">> >>
      folders == << "Important", "Personal", "Finance", "Archive" >>
  IN  Cat(<<
    EK_phone(2, x, y, EK_w, EK_h, "Folder Sidebar (Retained)"),
    \* base content darkened
    [k \in 1..5 |->
       LET i == k - 1
           yy == y2 + 140 + i * 104
       IN  Tag(RR(2, x2 + 24, yy, x2 + w2 - 24, yy + 86, 14, "#131722"), "item", "ek.base", 0, i)],
    \* drawer
    << Tag(RR(2, x2, y2, x2 + drawer_w, y2 + h2, 44, "#ffffff"), "drawer", "", 0, 0),
       Tag(Rect(2, x2 + drawer_w - 20, y2, x2 + drawer_w + 6, y2 + h2, "#ffffff"), "drawer", "", 0, 0),
       \* drawer header
       Tag(RR(2, x2 + 18, y2 + 110, x2 + drawer_w - 18, y2 + 176, 18, "#f3f4f6"), "field", "ek.searchfolders", 0, 0),
       Tag(Text(2, x2 + 34, y2 + 132, "Search folders", "f_b", "#9ca3af"), "fieldlabel", "ek.searchfolders", 0, 0),
       Tag(RR(2, x2 + drawer_w - 130, y2 + 120, x2 + drawer_w - 24, y2 + 166, 16, "ORANGE"), "btn", "ek.addfolder", 0, 0),
       Tag(Text(2, x2 + drawer_w - 95, y2 + 132, "+ Folder", "f_s", "white"), "btnlabel", "ek.addfolder", 0, 0),
       Text(2, x2 + 24, y2 + 216, "BROWSE", "f_b", "#9aa0aa") >>,
    Cat([k \in 1..5 |->
       LET i == k - 1
           yy == y2 + 248 + i * 82
           fill == IF i = 0 THEN "#f4f4f5" ELSE "#ffffff"
       IN  << Tag(RR(2, x2 + 18, yy, x2 + drawer_w - 18, yy + 66, 12, fill), "item", "ek.browse", 0, i),
              Tag(Text(2, x2 + 34, yy + 22, browse[k][1], "f_b", "#111827"), "part", "ek.browse", 0, i),
              Tag(Text(2, x2 + drawer_w - 52, yy + 22, browse[k][2], "f_b", "#9ca3af"), "part", "ek.browse", 0, i) >>]),
    << Text(2, x2 + 24, y2 + 690, "FOLDERS", "f_b", "#9aa0aa") >>,
    [k \in 1..4 |->
       LET i == k - 1
           yy == y2 + 722 + i * 62
       IN  Tag(Text(2, x2 + 34, yy + 20, folders[k], "f_b", "#111827"), "line", "ek.folders", 0, i)],
    \* note about hierarchy
    << Tag(RR(2, x2 + 24, y2 + 1030, x2 + drawer_w - 24, y2 + 1178, 14, "#f9fafb"), "card", "", 0, 0),
       Text(2, x2 + 34, y2 + 1050, "Behavior", "f_h", "#111827"),
       Text(2, x2 + 34, y2 + 1088, "* Drawer stays as fast access", "f_s", "#374151"),
       Text(2, x2 + 34, y2 + 1118, "* Opens above content and tabs", "f_s", "#374151"),
       Text(2, x2 + 34, y2 + 1148, "* Folder items push to saved list", "f_s", "#374151") >>
  >>)

\* the month grid: for r in range(5): for c in range(7)
EK_gridCell(gx, gy, r, c) ==
  LET xx == gx + c * 62
      yy == gy + r * 42
      fill == IF <<r, c>> \in {<<2, 3>>, <<3, 1>>, <<3, 5>>} THEN "ORANGE" ELSE "#202534"
      day == r * 7 + c + 1
      col == IF fill = "ORANGE" THEN "white" ELSE "#c2c7d1"
      dayTxt == IF day < 10 THEN "d" ELSE "dd"
  IN  << Tag(RR(3, xx, yy, xx + 54, yy + 34, 8, fill), "item", "ek.grid", c, r) >>
      \o (IF day <= 31
            THEN << Tag(Text(3, xx + 18, yy + 9, dayTxt, "f_s", col), "part", "ek.grid", c, r) >>
            ELSE <<>>)

\* Screen 3 - Calendar preserved and modernized
EK_Screen3(x, y) ==
  LET ret == EK_phoneRet(x, y, EK_w, EK_h)
      x3 == ret[1]
      y3 == ret[2]
      w3 == ret[3]
      h3 == ret[4]
      gx == x3 + 42
      gy == y3 + 266
      agenda == << <<"11:30 AM", "Team standup (from email invite)">>,
                   <<"2:00 PM", "Dentist appointment reminder">>,
                   <<"6:45 PM", "Flight check-in opens">> >>
  IN  Cat(<<
    EK_phone(3, x, y, EK_w, EK_h, "Calendar (Retained)"),
    \* top tabs
    << Tag(RR(3, x3 + 24, y3 + 118, x3 + w3 - 24, y3 + 182, 24, "CARD2"), "tabbar", "ek.tabs", 0, 0),
       Tab(RR(3, x3 + 112, y3 + 134, x3 + 214, y3 + 166, 14, "#232938"), "ek.tabs", 1, FALSE),
       Tab(Text(3, x3 + 142, y3 + 142, "Inbox", "f_s", "MUTED"), "ek.tabs", 1, FALSE),
       Tab(RR(3, x3 + 220, y3 + 134, x3 + 320, y3 + 166, 14, "#232938"), "ek.tabs", 2, FALSE),
       Tab(Text(3, x3 + 254, y3 + 142, "Sent", "f_s", "MUTED"), "ek.tabs", 2, FALSE),
       Tab(RR(3, x3 + 326, y3 + 134, x3 + 438, y3 + 166, 14, "ORANGE"), "ek.tabs", 3, TRUE),
       Tab(Text(3, x3 + 356, y3 + 142, "Calendar", "f_s", "white"), "ek.tabs", 3, TRUE),
       \* month mini grid block
       Tag(RR(3, x3 + 24, y3 + 202, x3 + w3 - 24, y3 + 530, 18, "CARD"), "card", "ek.grid", 0, 0),
       Text(3, x3 + 42, y3 + 224, "February 2026", "f_h", "WHITE") >>,
    \* simple grid
    Cat([j \in 1..35 |-> EK_gridCell(gx, gy, (j - 1) \div 7, (j - 1) % 7)]),
    \* agenda list
    << Tag(RR(3, x3 + 24, y3 + 548, x3 + w3 - 24, y3 + 1048, 18, "CARD2"), "card", "ek.agenda", 0, 0),
       Text(3, x3 + 42, y3 + 570, "Agenda - Thu, Feb 20", "f_h", "WHITE") >>,
    Cat([k \in 1..3 |->
       LET i == k - 1
           yy == y3 + 610 + i * 126
       IN  << Tag(RR(3, x3 + 42, yy, x3 + w3 - 42, yy + 108, 14, "#232838"), "item", "ek.agenda", 0, i),
              Tag(Text(3, x3 + 58, yy + 18, agenda[k][1], "f_b", "ORANGE"), "part", "ek.agenda", 0, i),
              Tag(Text(3, x3 + 58, yy + 50, agenda[k][2], "f_s", "WHITE"), "part", "ek.agenda", 0, i),
              Tag(RR(3, x3 + w3 - 176, yy + 28, x3 + w3 - 58, yy + 72, 16, "#2f3544"), "btn", "ek.agenda", 0, i),
              Tag(Text(3, x3 + w3 - 136, yy + 42, "Open Email", "f_s", "MUTED"), "btnlabel", "ek.agenda", 0, i) >>])
  >>)

\* one row of smart reply chips: for i,text in enumerate(texts)
EK_replyRow(grp, x4, yTop, yText, texts, g) ==
  Cat([k \in 1..Len(texts) |->
     LET i == k - 1
         xx == x4 + 24 + i * 246
         tw == textlength(texts[k], g)
     IN  << Tag(RR(4, xx, yTop, xx + 234, yTop + 50, 16, "#2a2f3d"), "item", grp, i, 0),
            Tag(TextHalf(4, 2 * xx + (234 - tw), yText, texts[k], "f_s", "WHITE"), "centred", grp, i, 0) >>])

\* Screen 4 - Thread detail with swipe-back
EK_Screen4(x, y, g) ==
  LET ret == EK_phoneRet(x, y, EK_w, EK_h)
      x4 == ret[1]
      y4 == ret[2]
      w4 == ret[3]
      h4 == ret[4]
      lines == << "1. Thread/detail pages are push navigation,",
                  "   not bottom sheets.",
                  "2. iOS edge-swipe back enabled on detail pages.",
                  "3. Sidebar remains a drawer for folder browsing.",
                  "4. Calendar remains its own main surface." >>
  IN  Cat(<<
    EK_phone(4, x, y, EK_w, EK_h, "Thread Detail + Swipe Back"),
    \* nav bar
    << Tag(RR(4, x4 + 24, y4 + 118, x4 + w4 - 24, y4 + 182, 24, "CARD2"), "card", "", 0, 0),
       Text(4, x4 + 44, y4 + 142, "<-", "f_h", "WHITE"),
       Text(4, x4 + 70, y4 + 142, "Back", "f_s", "WHITE"),
       Text(4, x4 + 224, y4 + 142, "RBC Royal Bank", "f_s", "WHITE"),
       \* sender summary
       Tag(RR(4, x4 + 24, y4 + 202, x4 + w4 - 24, y4 + 292, 16, "CARD"), "card", "", 0, 0),
       Text(4, x4 + 42, y4 + 228, "Interac e-Transfer accepted", "f_b", "WHITE"),
       Text(4, x4 + 42, y4 + 256, "Today - 7:56 AM", "f_s", "MUTED"),
       \* AI summary card
       Tag(RR(4, x4 + 24, y4 + 308, x4 + w4 - 24, y4 + 520, 16, "CARD"), "card", "", 0, 0),
       Text(4, x4 + 42, y4 + 330, "AI Summary", "f_h", "WHITE"),
       Text(4, x4 + 42, y4 + 370, "* Transfer confirmed for $240.00", "f_b", "WHITE"),
       Text(4, x4 + 42, y4 + 404, "* Deposited to your chequing account", "f_b", "WHITE"),
       Text(4, x4 + 42, y4 + 438, "* View transaction details", "f_b", "WHITE"),
       Text(4, x4 + 260, y4 + 438, "Open Receipt", "f_b", "ORANGE"),
       Line(4, x4 + 260, y4 + 460, x4 + 372, y4 + 460, "ORANGE"),
       \* smart reply row full-width
       Text(4, x4 + 42, y4 + 548, "Smart Reply", "f_h", "WHITE") >>,
    EK_replyRow("ek.reply1", x4, y4 + 586, y4 + 603, << "Thanks, got it", "Need confirmation" >>, g),
    EK_replyRow("ek.reply2", x4, y4 + 644, y4 + 661, << "Can you resend?", "I will reply later" >>, g),
    \* swipe guidance
    << Tag(RR(4, x4 + 24, y4 + 732, x4 + w4 - 24, y4 + 1046, 16, "CARD2"), "card", "ek.nav", 0, 0),
       Text(4, x4 + 42, y4 + 758, "Navigation & Gestures", "f_h", "WHITE") >>,
    [k \in 1..Len(lines) |->
       LET i == k - 1
       IN  Tag(Text(4, x4 + 42, y4 + 804 + i * 40, lines[k], "f_s", "MUTED"), "line", "ek.nav", 0, i)]
  >>)

\* the draw calls of the script, in source order; o are the frame origins,
\* g the glyph advance of the font bound to f_s
EK_Calls(o, g) ==
  Cat(<<
    \* Header
    << Text(0, 56, 36, "Seline Email Redesign (Keeps Sidebar + Calendar)", "f_title", "WHITE"),
       Text(0, 56, 94, "Updated concept: preserve folder drawer + calendar", "f_sub", "MUTED") >>,
    EK_Screen1(o[1][1], o[1][2]),
    EK_Screen2(o[2][1], o[2][2]),
    EK_Screen3(o[3][1], o[3][2]),
    EK_Screen4(o[4][1], o[4][2], g),
    \* footer
    << Text(0, 56, 1498, "Accent usage: active tab/chips, primary CTA, clickable link text.", "f_s", "#B2B8C3") >>
  >>)

(***************************************************************************)
(* generate_email_redesign_mockups.py                                      *)
(***************************************************************************)
EM_W == 2200
EM_H == 1500
\* def phone(x, y, w=490, h=1240, title='')
EM_w == 490
EM_h == 1240

EM_Fonts ==
  << [h |-> "f_title", file |-> "Arial Bold.ttf", size |-> 40],
     [h |-> "f_sub",   file |-> "Arial.ttf",      size |-> 22],
     [h |-> "f_body",  file |-> "Arial.ttf",      size |-> 18],
     [h |-> "f_small", file |-> "Arial.ttf",      size |-> 15],
     [h |-> "f_h3",    file |-> "Arial Bold.ttf", size |-> 24] >>

\* except: f_title = load_default() ... f_h3 = load_default()
EM_FontFallback == {"f_title"} \cup {"f_sub"} \cup {"f_body"} \cup {"f_small"} \cup {"f_h3"}

\* the origins passed to phone(): (60, 170), (590, 170), (1120, 170), (1650, 170)
EM_Origins == << <<60, 170>>, <<590, 170>>, <<1120, 170>>, <<1650, 170>> >>

\* return (x, y, w, h)
EM_phoneRet(x, y, w, h) == << x, y, w, h >>

EM_phone(f, x, y, w, h, title) ==
  << [Tag(RR(f, x, y, x + w, y + h, 48, "#0f1115"), "frame", "", 0, 0)
        EXCEPT !.ret = EM_phoneRet(x, y, w, h)],
     \* notch
     Tag(RR(f, x + 170, y + 20, x + w - 170, y + 54, 16, "#08090b"), "notch", "", 0, 0) >>
  \o (IF title # ""
        THEN << Tag(Text(f, x + 24, y + 72, title, "f_h3", "WHITE"), "title", "", 0, 0) >>
        ELSE <<>>)

\* 1) Unified Inbox Hub
EM_Screen1(x, y) ==
  LET ret == EM_phoneRet(x, y, EM_w, EM_h)
      x1 == ret[1]
      y1 == ret[2]
      w1 == ret[3]
      h1 == ret[4]
      summary == << <<"New", "18", "ORANGE">>, <<"Priority", "4", "RED">>, <<"Saved", "62", "GREEN">> >>
      focus == << <<"Action Required", "4", "2 overdue">>,
                  <<"Shipping / Travel", "6", "3 tracking updates">>,
                  <<"Newsletters", "8", "batch summarize">> >>
      cta == << "Inbox Feed", "Sent", "Planner" >>
      senders == << "RBC Royal Bank", "Airbnb", "MS Store", "Your Lisgar neighbours" >>
      subjects == << "Transfer accepted", "Trip update", "Surface promo", "Winter petition update" >>
  IN  Cat(<<
    EM_phone(1, x, y, EM_w, EM_h, "Email Hub"),
    \* top controls
    << Tag(RR(1, x1 + 24, y1 + 116, x1 + w1 - 24, y1 + 178, 24, "CARD2"), "tabbar", "em.top", 0, 0),
       Tab(RR(1, x1 + 38, y1 + 128, x1 + 154, y1 + 166, 18, "ORANGE"), "em.top", 1, TRUE),
       Tab(Text(1, x1 + 72, y1 + 136, "All", "f_small", "white"), "em.top", 1, TRUE),
       Tab(RR(1, x1 + 164, y1 + 128, x1 + 294, y1 + 166, 18, "#232730"), "em.top", 2, FALSE),
       Tab(Text(1, x1 + 196, y1 + 136, "Unread", "f_small", "MUTED"), "em.top", 2, FALSE),
       Tab(RR(1, x1 + 304, y1 + 128, x1 + 448, y1 + 166, 18, "#232730"), "em.top", 3, FALSE),
       Tab(Text(1, x1 + 338, y1 + 136, "Today", "f_small", "MUTED"), "em.top", 3, FALSE) >>,
    \* summary cards
    Cat([k \in 1..3 |->
       LET i == k - 1
           xx == x1 + 24 + i * 154
       IN  << Tag(RR(1, xx, y1 + 194, xx + 142, y1 + 274, 18, "CARD"), "item", "em.summary", i, 0),
              Tag(Text(1, xx + 14, y1 + 208, summary[k][1], "f_small", "MUTED"), "part", "em.summary", i, 0),
              Tag(Text(1, xx + 14, y1 + 236, summary[k][2], "f_h3", summary[k][3]), "part", "em.summary", i, 0) >>]),
    \* Focus row
    Cat([k \in 1..3 |->
       LET j == k - 1
           yy == y1 + 300 + j * 118
       IN  << Tag(RR(1, x1 + 24, yy, x1 + w1 - 24, yy + 102, 18, "CARD"), "item", "em.focus", 0, j),
              Tag(Text(1, x1 + 42, yy + 18, focus[k][1], "f_body", "WHITE"), "part", "em.focus", 0, j),
              Tag(Text(1, x1 + w1 - 120, yy + 18, focus[k][2], "f_body", "ORANGE"), "part", "em.focus", 0, j),
              Tag(Text(1, x1 + 42, yy + 50, focus[k][3], "f_small", "MUTED"), "part", "em.focus", 0, j) >>]),
    \* CTA row
    Cat([k \in 1..3 |->
       LET i == k - 1
           xx == x1 + 24 + i * 152
           fill == IF i = 0 THEN "ORANGE" ELSE "#232730"
           tc == IF i = 0 THEN "white" ELSE "MUTED"
       IN  << Tab(Tag(RR(1, xx, y1 + 670, xx + 140, y1 + 714, 20, fill), "item", "em.cta", i, 0),
                  "em.cta", k, i = 0),
              Tab(Tag(Text(1, xx + 26, y1 + 684, cta[k], "f_small", tc), "part", "em.cta", i, 0),
                  "em.cta", k, i = 0) >>]),
    \* feed preview
    Cat([k \in 1..4 |->
       LET i == k - 1
           yy == y1 + 740 + i * 98
       IN  << Tag(RR(1, x1 + 24, yy, x1 + w1 - 24, yy + 86, 16, "CARD2"), "item", "em.feed", 0, i),
              Tag(Ellipse(1, x1 + 38, yy + 20, x1 + 74, yy + 56, "#6c7380"), "part", "em.feed", 0, i),
              Tag(Text(1, x1 + 86, yy + 24, senders[k], "f_body", "WHITE"), "part", "em.feed", 0, i),
              Tag(Text(1, x1 + 86, yy + 52, subjects[k], "f_small", "MUTED"), "part", "em.feed", 0, i) >>]),
    \* compose pill
    << Tag(RR(1, x1 + 146, y1 + h1 - 96, x1 + w1 - 146, y1 + h1 - 42, 26, "ORANGE"), "btn", "em.compose", 0, 0),
       Tag(Text(1, x1 + 203, y1 + h1 - 79, "+ Compose", "f_body", "white"), "btnlabel", "em.compose", 0, 0) >>
  >>)

\* a variant that starts every label 12 pixels into its chip
EM_chip_Left(x2, y2, i, c, g) ==
  LET row == i \div 2
      col == i % 2
      xx == x2 + 24 + col * 221
      yy == y2 + 596 + row * 56
  IN  << Tag(RR(2, xx, yy, xx + 209, yy + 44, 16, "#2A2E36"), "item", "em.chips", col, row),
         Tag(TextHalf(2, 2 * (xx + 12), yy + 13, c, "f_small", "WHITE"), "centred", "em.chips", col, row) >>

\* smart reply full-width chips: row = i//2, col = i%2
EM_chip(x2, y2, i, c, g) ==
  LET row == i \div 2
      col == i % 2
      xx == x2 + 24 + col * 221
      yy == y2 + 596 + row * 56
      tw == textlength(c, g)
  IN  << Tag(RR(2, xx, yy, xx + 209, yy + 44, 16, "#2A2E36"), "item", "em.chips", col, row),
         Tag(TextHalf(2, 2 * xx + (209 - tw), yy + 13, c, "f_small", "WHITE"), "centred", "em.chips", col, row) >>

\* 2) Thread Detail
EM_Screen2(x, y, g) ==
  LET ret == EM_phoneRet(x, y, EM_w, EM_h)
      x2 == ret[1]
      y2 == ret[2]
      w2 == ret[3]
      h2 == ret[4]
      chips == << "Sounds good", "Need more info", "Decline politely", "Schedule call" >>
      body == << "Your order has shipped and is currently in transit.",
                 "Due to weather conditions, delivery is now expected",
                 "on Sunday. You can monitor progress from your",
                 "order page using your tracking number." >>
  IN  Cat(<<
    EM_phone(2, x, y, EM_w, EM_h, "Thread Detail"),
    \* top bar
    << Tag(RR(2, x2 + 24, y2 + 116, x2 + w2 - 24, y2 + 178, 24, "CARD2"), "card", "", 0, 0),
       Text(2, x2 + 42, y2 + 136, "< Back", "f_small", "WHITE"),
       Text(2, x2 + 210, y2 + 136, "2:15 PM", "f_small", "MUTED"),
       Text(2, x2 + 390, y2 + 136, "...", "f_body", "MUTED"),
       \* sender card
       Tag(RR(2, x2 + 24, y2 + 196, x2 + w2 - 24, y2 + 292, 18, "CARD"), "card", "", 0, 0),
       Text(2, x2 + 42, y2 + 220, "Amazon.ca", "f_body", "WHITE"),
       Text(2, x2 + 42, y2 + 248, "to me  -  Today, 2:15 PM", "f_small", "MUTED"),
       \* AI Summary
       Tag(RR(2, x2 + 24, y2 + 312, x2 + w2 - 24, y2 + 534, 18, "CARD"), "card", "", 0, 0),
       Text(2, x2 + 42, y2 + 334, "AI Summary", "f_h3", "WHITE"),
       Text(2, x2 + 42, y2 + 372, "* Shipment delayed by 1 day.", "f_body", "WHITE"),
       Text(2, x2 + 42, y2 + 406, "* Track package:", "f_body", "WHITE"),
       Text(2, x2 + 178, y2 + 406, "Amazon Order Status", "f_body", "ORANGE"),
       Line(2, x2 + 178, y2 + 428, x2 + 372, y2 + 428, "ORANGE"),
       Text(2, x2 + 42, y2 + 444, "* New ETA is Feb 22, 2026.", "f_body", "WHITE"),
       \* smart reply full-width chips
       Text(2, x2 + 42, y2 + 558, "Smart Reply", "f_h3", "WHITE") >>,
    Cat([k \in 1..Len(chips) |-> EM_chip(x2, y2, k - 1, chips[k], g)]),
    \* body preview
    << Tag(RR(2, x2 + 24, y2 + 720, x2 + w2 - 24, y2 + 1058, 18, "CARD2"), "card", "em.body", 0, 0),
       Text(2, x2 + 42, y2 + 744, "Original Email", "f_body", "WHITE") >>,
    [k \in 1..Len(body) |->
       LET i == k - 1
       IN  Tag(Text(2, x2 + 42, y2 + 782 + i * 32, body[k], "f_small", "MUTED"), "line", "em.body", 0, i)]
  >>)

\* 3) Saved + Folders
EM_Screen3(x, y) ==
  LET ret == EM_phoneRet(x, y, EM_w, EM_h)
      x3 == ret[1]
      y3 == ret[2]
      w3 == ret[3]
      h3 == ret[4]
      folders == << <<"Pinned", "4">>, <<"Receipts", "130">>, <<"Travel", "12">>,
                    <<"Work", "36">>, <<"Unfiled", "18">> >>
      threads == << "RBC: E-transfer receipt", "Airbnb: Reservation confirmation",
                    "CRA: Account update notice" >>
  IN  Cat(<<
    EM_phone(3, x, y, EM_w, EM_h, "Folders & Saved"),
    << Tag(RR(3, x3 + 24, y3 + 116, x3 + w3 - 24, y3 + 178, 24, "CARD2"), "field", "em.searchfolders", 0, 0),
       Tag(Text(3, x3 + 48, y3 + 136, "Search folders", "f_small", "#8F95A3"), "fieldlabel", "em.searchfolders", 0, 0),
       Tag(RR(3, x3 + w3 - 160, y3 + 128, x3 + w3 - 38, y3 + 166, 18, "ORANGE"), "btn", "em.addfolder", 0, 0),
       Tag(Text(3, x3 + w3 - 126, y3 + 136, "+ Folder", "f_small", "white"), "btnlabel", "em.addfolder", 0, 0),
       Text(3, x3 + 24, y3 + 210, "Browse", "f_h3", "MUTED") >>,
    Cat([k \in 1..5 |->
       LET i == k - 1
           yy == y3 + 250 + i * 86
       IN  << Tag(RR(3, x3 + 24, yy, x3 + w3 - 24, yy + 74, 14, "CARD"), "item", "em.folders", 0, i),
              Tag(Text(3, x3 + 42, yy + 24, folders[k][1], "f_body", "WHITE"), "part", "em.folders", 0, i),
              Tag(Text(3, x3 + w3 - 72, yy + 24, folders[k][2], "f_body", "MUTED"), "part", "em.folders", 0, i) >>]),
    \* saved thread preview
    << Tag(RR(3, x3 + 24, y3 + 720, x3 + w3 - 24, y3 + 1090, 18, "CARD2"), "card", "em.saved", 0, 0),
       Text(3, x3 + 42, y3 + 742, "Saved Thread View", "f_h3", "WHITE"),
       Text(3, x3 + 42, y3 + 780, "Full-thread save, not single message fragments.", "f_small", "MUTED") >>,
    Cat([k \in 1..3 |->
       LET i == k - 1
           yy == y3 + 820 + i * 84
       IN  << Tag(RR(3, x3 + 42, yy, x3 + w3 - 42, yy + 68, 12, "#1f232b"), "item", "em.saved", 0, i),
              Tag(Text(3, x3 + 58, yy + 23, threads[k], "f_small", "WHITE"), "part", "em.saved", 0, i) >>])
  >>)

\* 4) Planner from Email (formerly events tab)
EM_Screen4(x, y) ==
  LET ret == EM_phoneRet(x, y, EM_w, EM_h)
      x4 == ret[1]
      y4 == ret[2]
      w4 == ret[3]
      h4 == ret[4]
      insights == << <<"Today", "6">>, <<"Pending RSVP", "2">>, <<"Flights/Trips", "1">> >>
      cards == << <<"11:30 AM  Team standup", "From email: Zoom invite">>,
                  <<"2:00 PM  Dentist reminder", "From email: appointment confirmation">>,
                  <<"6:45 PM  Flight check-in", "From email: airline update">> >>
      notes == << "1. Hub -> Thread Detail uses NavigationStack push.",
                  "2. Thread Detail, Saved Thread, Planner Detail support",
                  "   native swipe-from-left back gesture.",
                  "3. Compose opens full-screen, dismiss by swipe-down +",
                  "   explicit Cancel for reliability.",
                  "4. Sidebars become full pages on compact widths." >>
  IN  Cat(<<
    EM_phone(4, x, y, EM_w, EM_h, "Planner (Email-linked)"),
    \* insights
    Cat([k \in 1..3 |->
       LET i == k - 1
           xx == x4 + 24 + i * 154
       IN  << Tag(RR(4, xx, y4 + 116, xx + 142, y4 + 194, 16, "CARD"), "item", "em.insights", i, 0),
              Tag(Text(4, xx + 14, y4 + 132, insights[k][1], "f_small", "MUTED"), "part", "em.insights", i, 0),
              Tag(Text(4, xx + 14, y4 + 160, insights[k][2], "f_h3", "ORANGE"), "part", "em.insights", i, 0) >>]),
    \* timeline cards
    Cat([k \in 1..3 |->
       LET i == k - 1
           yy == y4 + 224 + i * 124
       IN  << Tag(RR(4, x4 + 24, yy, x4 + w4 - 24, yy + 108, 16, "CARD2"), "item", "em.timeline", 0, i),
              Tag(Text(4, x4 + 42, yy + 22, cards[k][1], "f_body", "WHITE"), "part", "em.timeline", 0, i),
              Tag(Text(4, x4 + 42, yy + 58, cards[k][2], "f_small", "MUTED"), "part", "em.timeline", 0, i),
              Tag(RR(4, x4 + w4 - 168, yy + 20, x4 + w4 - 38, yy + 56, 15, "ORANGE"), "btn", "em.timeline", 0, i),
              Tag(Text(4, x4 + w4 - 134, yy + 31, "Open", "f_small", "white"), "btnlabel", "em.timeline", 0, i) >>]),
    \* nav notes
    << Tag(RR(4, x4 + 24, y4 + 640, x4 + w4 - 24, y4 + 980, 18, "CARD"), "card", "em.notes", 0, 0),
       Text(4, x4 + 42, y4 + 664, "Navigation Rules", "f_h3", "WHITE") >>,
    [k \in 1..Len(notes) |->
       LET i == k - 1
       IN  Tag(Text(4, x4 + 42, y4 + 704 + i * 36, notes[k], "f_small", "MUTED"), "line", "em.notes", 0, i)]
  >>)

\* the draw calls of the script, in source order; o are the frame origins,
\* g the glyph advance of the font bound to f_small
EM_Calls(o, g) ==
  Cat(<<
    \* Header
    << Text(0, 60, 40, "Seline Email Redesign - Unified, Modern, Swipe-Back Friendly", "f_title", "WHITE"),
       Text(0, 60, 98, "Concept 1: one clear hierarchy + focused drill-down pages", "f_sub", "MUTED") >>,
    EM_Screen1(o[1][1], o[1][2]),
    EM_Screen2(o[2][1], o[2][2], g),
    EM_Screen3(o[3][1], o[3][2]),
    EM_Screen4(o[4][1], o[4][2]),
    \* Footer legend
    << Text(0, 60, 1428, "Accent: #E07850 (orange) | Use accent only for active state", "f_small", "#B1B5BF") >>
  >>)

(***************************************************************************)
(* A run of a generator.                                                   *)
(***************************************************************************)
FontsOf(s) ==
  CASE s = "maps_redesign" -> MR_Fonts
    [] s = "maps_flow"     -> MF_Fonts
    [] s = "email_keep"    -> EK_Fonts
    [] s = "email_mockups" -> EM_Fonts

\* the handles the except clause of the script binds to the default font
FallbackOf(s) ==
  CASE s = "maps_redesign" -> MR_FontFallback
    [] s = "maps_flow"     -> MF_FontFallback
    [] s = "email_keep"    -> EK_FontFallback
    [] s = "email_mockups" -> EM_FontFallback

\* the origins of the phone frames as the script writes them
OriginsOf(s) ==
  CASE s = "maps_redesign" -> MR_Origins
    [] s = "maps_flow"     -> <<>>
    [] s = "email_keep"    -> EK_Origins
    [] s = "email_mockups" -> EM_Origins

\* W, H = ...
SurfaceOf(s) ==
  CASE s = "maps_redesign" -> << MR_W, MR_H >>
    [] s = "maps_flow"     -> << MF_W, MF_H >>
    [] s = "email_keep"    -> << EK_W, EK_H >>
    [] s = "email_mockups" -> << EM_W, EM_H >>

\* out = '/Users/alishahamin/Desktop/Vibecode/Seline/.codex_mockups/....png'
OutPath(s) ==
  CASE s = "maps_redesign" -> "/Users/alishahamin/Desktop/Vibecode/Seline/.codex_mockups/maps_redesign_3tabs_mockup.png"
    [] s = "maps_flow"     -> "/Users/alishahamin/Desktop/Vibecode/Seline/.codex_mockups/maps_redesign_flow_mockup.png"
    [] s = "email_keep"    -> "/Users/alishahamin/Desktop/Vibecode/Seline/.codex_mockups/email_redesign_keep_sidebar_calendar.png"
    [] s = "email_mockups" -> "/Users/alishahamin/Desktop/Vibecode/Seline/.codex_mockups/email_redesign_mockups.png"

\* the draw calls of script s with frame origins o and glyph advance g
CallsOf(s, o, g) ==
  CASE s = "maps_redesign" -> MR_Calls(o)
    [] s = "maps_flow"     -> MF_Calls
    [] s = "email_keep"    -> EK_Calls(o, g)
    [] s = "email_mockups" -> EM_Calls(o, g)

\* the scripts that call d.textlength
Measures(s) == s \in {"email_keep", "email_mockups"}

Handles(s) == { FontsOf(s)[k].h : k \in DOMAIN FontsOf(s) }

\* ImageFont.truetype(file, size) and ImageFont.load_default()
truetype(file, size) == [file |-> file, size |-> size]
load_default == [file |-> "default", size |-> 0]
\* a name that no assignment has bound yet
Unbound == [file |-> "", size |-> 0]

NoCall == Call("", 0, 0, 0, 0, 0)
NoProbe == [src |-> "", arg |-> "", start |-> 0, stride |-> 0, count |-> 0, extent |-> 0, pos |-> <<>>]

\* the origins of script s with frame k moved by (dx, dy).  The maps
\* redesign script keeps one y for its three frames (x1, y = 36, 106), so
\* moving the y of one frame moves the y of all.
Relocate(s, k, dx, dy) ==
  LET o == OriginsOf(s)
  IN  [j \in DOMAIN o |->
         << o[j][1] + (IF j = k THEN dx ELSE 0),
            o[j][2] + (IF j = k \/ s = "maps_redesign" THEN dy ELSE 0) >>]

\* the origins a run may start from: one frame moved by 0..MaxShift pixels
Relocations(s) ==
  { OriginsOf(s) } \cup
  { Relocate(s, k, dx, dy) : k \in DOMAIN OriginsOf(s), dx \in 0..MaxShift, dy \in 0..MaxShift }

GlyphsOf(s) == IF Measures(s) THEN 0..MaxGlyph ELSE {0}

\* the call sequence of every run, computed once
CallTable ==
  LET t == [a \in { <<s, o, g>> : s \in Scripts, o \in UNION { Relocations(x) : x \in Scripts },
                                  g \in 0..MaxGlyph } |->
              IF a[2] \in Relocations(a[1]) /\ a[3] \in GlyphsOf(a[1])
                THEN CallsOf(a[1], a[2], a[3]) ELSE <<>>]
  IN  IF t = t THEN t ELSE t

\* the calls of the running script, or of the one call
\* phone(x1, y, 'Saved Locations', selected_tab) when a run probes phone()
\* with the argument probe.arg; and the calls issued so far
Calls ==
  IF probe.src = "phone"
    THEN MR_phone(1, org[1][1], org[1][2], "Saved Locations", probe.arg)
    ELSE CallTable[<<script, org, glyph>>]
Issued == SubSeq(Calls, 1, n)

\* the position after the try / except of the font setup
AfterFonts == "draw"

\* a variant in which the exception of img.save is swallowed
AfterSaveFails_Swallowed == "print"

\* the position after img.save(out) raised: nothing catches the exception
AfterSaveFails == "failed"

\* the position after img.save(out) returned: print(out) is next
AfterSaveOk == "print"

InitRun(s, o) ==
  /\ script = s
  /\ pc = "fonts"
  /\ fi = 0
  /\ fonts = [h \in Handles(s) |-> Unbound]
  /\ glyph = 0
  /\ org = o
  /\ n = 0
  /\ last = NoCall
  /\ saved = <<>>
  /\ stdout = <<>>
  /\ probe = NoProbe

Init == \E s \in Scripts : InitRun(s, OriginsOf(s))

\* the advance of a glyph in the font that ended up bound (Pillow decides)
Glyphs == GlyphsOf(script) \ (IF Measures(script) THEN {0} ELSE {})

\* one assignment of the try block: handle = ImageFont.truetype(file, size)
LoadFont ==
  /\ pc = "fonts"
  /\ fi < Len(FontsOf(script))
  /\ LET req == FontsOf(script)[fi + 1]
     IN  fonts' = [fonts EXCEPT ![req.h] = truetype(req.file, req.size)]
  /\ IF fi + 1 = Len(FontsOf(script))
       THEN pc' = AfterFonts /\ glyph' \in Glyphs
       ELSE pc' = pc /\ glyph' = glyph
  /\ fi' = fi + 1
  /\ UNCHANGED <<script, org, n, last, saved, stdout, probe>>

\* ImageFont.truetype raises inside the try block: the except clause runs
FontFallback ==
  /\ pc = "fonts"
  /\ fi < Len(FontsOf(script))
  /\ fonts' = [h \in DOMAIN fonts |->
                 IF h \in FallbackOf(script) THEN load_default ELSE fonts[h]]
  /\ pc' = AfterFonts
  /\ fi' = fi
  /\ glyph' \in Glyphs
  /\ UNCHANGED <<script, org, n, last, saved, stdout, probe>>

\* the next draw call of the script; a text call whose font name is not
\* bound raises NameError, which nothing catches
DrawCall ==
  /\ pc = "draw"
  /\ n < Len(Calls)
  /\ LET c == Calls[n + 1]
     IN  IF c.op = "text" /\ fonts[c.font] = Unbound
           THEN pc' = "failed" /\ UNCHANGED <<n, last>>
           ELSE pc' = pc /\ n' = n + 1 /\ last' = c
  /\ UNCHANGED <<script, fi, fonts, glyph, org, saved, stdout, probe>>

\* img.save(out) returns
SaveOk ==
  /\ pc = "draw"
  /\ n = Len(Calls)
  /\ saved' = Append(saved, OutPath(script))
  /\ pc' = AfterSaveOk
  /\ UNCHANGED <<script, fi, fonts, glyph, org, n, last, stdout, probe>>

\* img.save(out) raises (the path is not writable)
SaveFails ==
  /\ pc = "draw"
  /\ n = Len(Calls)
  /\ pc' = AfterSaveFails
  /\ UNCHANGED <<script, fi, fonts, glyph, org, n, last, saved, stdout, probe>>

\* print(out)
PrintPath ==
  /\ pc = "print"
  /\ stdout' = Append(stdout, OutPath(script))
  /\ pc' = "done"
  /\ UNCHANGED <<script, fi, fonts, glyph, org, n, last, saved, probe>>

Next ==
  \/ LoadFont
  \/ FontFallback
  \/ DrawCall
  \/ SaveOk
  \/ SaveFails
  \/ PrintPath

Spec == Init /\ [][Next]_vars

(***************************************************************************)
(* Relocated frames: the runs of the three phone mockups with the origin   *)
(* of one frame moved, from the first draw call on (fonts bound).          *)
(***************************************************************************)
PhoneScripts == { s \in Scripts : OriginsOf(s) # <<>> }

InitReloc ==
  \E s \in PhoneScripts : \E o \in Relocations(s) :
    /\ script = s
    /\ pc = "draw"
    /\ fi = Len(FontsOf(s))
    /\ fonts = [h \in Handles(s) |->
                  LET req == CHOOSE r \in { FontsOf(s)[k] : k \in DOMAIN FontsOf(s) } : r.h = h
                  IN  truetype(req.file, req.size)]
    /\ glyph = IF Measures(s) THEN 1 ELSE 0
    /\ org = o
    /\ n = 0
    /\ last = NoCall
    /\ saved = <<>>
    /\ stdout = <<>>
    /\ probe = NoProbe

NextReloc == DrawCall

SpecReloc == InitReloc /\ [][NextReloc]_vars

(***************************************************************************)
(* A row series laid out item by item: item i of count items is placed at  *)
(* start + i * stride and extends over extent pixels along the axis.  The  *)
(* series is either a generic one or one of the loops of the scripts.      *)
(***************************************************************************)
\* a variant whose items creep back by one pixel per item
RowPos_Creep(start, stride, i) == start + i * stride - i

\* yy = start + i*stride (xx = ... for a series of columns)
RowPos(start, stride, i) == start + i * stride

\* the item rects the loops of script s draw
Items(s) ==
  LET calls == CallsOf(s, OriginsOf(s), 0)
  IN  { calls[k] : k \in { j \in DOMAIN calls : calls[j].role = "item" } }

SameSeries(a, b) == a.f = b.f /\ a.grp = b.grp

\* the series along x (rows of columns) and along y of script s: start,
\* stride and item extent as the first two items give them, and the count
SeriesX(s) ==
  { [src |-> s, arg |-> "", start |-> p[1].x0, stride |-> p[2].x0 - p[1].x0,
     count |-> Cardinality({ c \in Items(s) : SameSeries(c, p[1]) /\ c.iy = p[1].iy }),
     extent |-> p[1].x1 - p[1].x0, pos |-> <<>>] :
    p \in { q \in Items(s) \X Items(s) :
              SameSeries(q[1], q[2]) /\ q[1].iy = q[2].iy /\ q[1].ix = 0 /\ q[2].ix = 1 } }

SeriesY(s) ==
  { [src |-> s, arg |-> "", start |-> p[1].y0, stride |-> p[2].y0 - p[1].y0,
     count |-> Cardinality({ c \in Items(s) : SameSeries(c, p[1]) /\ c.ix = p[1].ix }),
     extent |-> p[1].y1 - p[1].y0, pos |-> <<>>] :
    p \in { q \in Items(s) \X Items(s) :
              SameSeries(q[1], q[2]) /\ q[1].ix = q[2].ix /\ q[1].iy = 0 /\ q[2].iy = 1 } }

ScriptSeries == UNION { SeriesX(s) \cup SeriesY(s) : s \in Scripts }

GenericSeries ==
  { [src |-> "generic", arg |-> "", start |-> 0, stride |-> st, count |-> c, extent |-> e, pos |-> <<>>] :
    st \in 1..MaxStride, c \in 0..MaxItems, e \in 1..MaxExtent }

InitSeries ==
  /\ script = "none"
  /\ pc = "series"
  /\ fi = 0
  /\ fonts = <<>>
  /\ glyph = 0
  /\ org = <<>>
  /\ n = 0
  /\ last = NoCall
  /\ saved = <<>>
  /\ stdout = <<>>
  /\ probe \in GenericSeries \cup ScriptSeries

\* one pass of the loop body: the next item is placed
PlaceItem ==
  /\ pc = "series"
  /\ Len(probe.pos) < probe.count
  /\ probe' = [probe EXCEPT !.pos = Append(@, RowPos(probe.start, probe.stride, Len(probe.pos)))]
  /\ UNCHANGED <<script, pc, fi, fonts, glyph, org, n, last, saved, stdout>>

NextSeries == PlaceItem

SpecSeries == InitSeries /\ [][NextSeries]_vars

(***************************************************************************)
(* Tab groups: the draw calls of the four scripts as they are, and of      *)
(* phone() of the maps redesign script for any selected_tab.               *)
(***************************************************************************)
\* the labels of the tab bar, and two arguments that are no label
TabArgs == {"Saved", "People", "Timeline", "Map", ""}

\* the handles of script s bound as its try block binds them
Bound(s) ==
  [h \in Handles(s) |->
     LET req == CHOOSE r \in { FontsOf(s)[k] : k \in DOMAIN FontsOf(s) } : r.h = h
     IN  truetype(req.file, req.size)]

InitTabs ==
  /\ \E s \in Scripts : \E t \in TabArgs \cup {"run"} :
        /\ script = s
        /\ fonts = Bound(s)
        /\ fi = Len(FontsOf(s))
        /\ glyph = IF Measures(s) THEN 1 ELSE 0
        /\ org = OriginsOf(s)
        /\ IF t = "run" THEN probe = NoProbe
           ELSE s = "maps_redesign" /\ probe = [NoProbe EXCEPT !.src = "phone", !.arg = t]
  /\ pc = "draw"
  /\ n = 0
  /\ last = NoCall
  /\ saved = <<>>
  /\ stdout = <<>>

NextTabs == DrawCall

SpecTabs == InitTabs /\ [][NextTabs]_vars

(***************************************************************************)
(* Properties.  After a draw call has been issued (n >= 1), last is that   *)
(* call; every prefix of a run is a state, so a property of last is a      *)
(* property of every call issued.                                          *)
(***************************************************************************)
\* the call c moved by (dx, dy)
Shifted(c, dx, dy) ==
  [c EXCEPT !.x0 = @ + dx, !.x1 = @ + dx, !.x2 = @ + 2 * dx,
            !.y0 = @ + dy, !.y1 = @ + dy]

\* the call without the value its function returns
Geometry(c) == [c EXCEPT !.ret = <<>>]

\* the run of the script with the origins as the script writes them
Reference == CallTable[<<script, OriginsOf(script), glyph>>]

Overlap(p, q, e) == p < q + e /\ q < p + e

SeriesDisjoint ==
  \A i, j \in DOMAIN probe.pos :
    i # j => ~Overlap(probe.pos[i], probe.pos[j], probe.extent)

ConsecutiveOverlap ==
  \A i \in DOMAIN probe.pos :
    i > 1 => Overlap(probe.pos[i - 1], probe.pos[i], probe.extent)

\* C3: the items of a row series are pairwise non-overlapping whenever
\* stride >= extent, consecutive items overlap whenever stride < extent
\* (two items placed or more), and every series of the four scripts has
\* stride >= extent.
StrideAtLeastExtent ==
  /\ probe.stride >= probe.extent => SeriesDisjoint
  /\ (probe.stride < probe.extent /\ Len(probe.pos) >= 2) =>
       ConsecutiveOverlap /\ ~SeriesDisjoint
  /\ probe.src \in Scripts => probe.stride >= probe.extent /\ probe.stride > 0

\* a series of a script with three items or more is laid out completely
WitnessSeriesPlaced ==
  /\ probe.src = "email_mockups"
  /\ probe.count >= 3
  /\ Len(probe.pos) = probe.count

\* C4: img.save is called once, after every draw call; the path is printed
\* once and only after the save returned; when the save raises, the run
\* ends there and the path is never printed.
SaveThenPrint ==
  /\ saved \in { <<>>, << OutPath(script) >> }
  /\ stdout \in { <<>>, << OutPath(script) >> }
  /\ saved # <<>> => n = Len(Calls)
  /\ stdout # <<>> => saved # <<>>
  /\ pc \in {"print", "done"} <=> saved # <<>>
  /\ pc = "done" <=> stdout # <<>>
  /\ pc = "failed" => saved = <<>> /\ stdout = <<>>

\* the image is saved and the path printed
WitnessPrinted ==
  /\ pc = "done"
  /\ n = Len(Calls)
  /\ saved = << OutPath(script) >>
  /\ stdout = << OutPath(script) >>

\* every handle is bound to the font the script asks for
AllRequested ==
  \A k \in DOMAIN FontsOf(script) :
    fonts[FontsOf(script)[k].h] = truetype(FontsOf(script)[k].file, FontsOf(script)[k].size)

AllDefault == \A h \in Handles(script) : fonts[h] = load_default

\* C5: the font setup never ends the run: after it every handle is bound,
\* all to the default font when a load failed (also after earlier loads
\* succeeded), all to the requested font otherwise, and a run fails only
\* in img.save.
FontsAllOrNothing ==
  /\ pc # "fonts" =>
       IF fi = Len(FontsOf(script)) THEN AllRequested ELSE AllDefault
  /\ pc = "failed" => n = Len(Calls)

\* a load failed after two handles were bound, and text has been drawn
WitnessFallback ==
  /\ pc = "draw"
  /\ fi = 2
  /\ AllDefault
  /\ n >= 1
  /\ last.op = "text"

\* the horizontal step between the origins of consecutive frames
FrameStep(s) == OriginsOf(s)[2][1] - OriginsOf(s)[1][1]

\* C6: the frames of a phone mockup lie in one row at a constant horizontal
\* step greater than the frame width, so consecutive frames are disjoint,
\* and every frame lies inside the drawing surface.
FramesApart ==
  (n >= 1 /\ last.role = "frame") =>
    LET calls == Calls
    IN  /\ 0 <= last.x0 /\ last.x1 <= SurfaceOf(script)[1]
        /\ 0 <= last.y0 /\ last.y1 <= SurfaceOf(script)[2]
        /\ FrameStep(script) > last.x1 - last.x0
        /\ \A i \in 1..(n - 1) :
             (calls[i].role = "frame" /\ calls[i].f = last.f - 1) =>
               /\ last.x0 - calls[i].x0 = FrameStep(script)
               /\ last.y0 = calls[i].y0
               /\ last.x1 - last.x0 = calls[i].x1 - calls[i].x0
               /\ last.y1 - last.y0 = calls[i].y1 - calls[i].y0
               /\ calls[i].x1 < last.x0

\* the last of the four frames of an email mockup has been drawn
WitnessLastFrame ==
  /\ n >= 1
  /\ last.role = "frame"
  /\ last.f = 4
  /\ last.f = Len(org)

\* C7: a centred chip label is drawn at x = center_x - tw / 2, center_x the
\* middle of its chip and tw = d.textlength(label, font), whatever the
\* advance of the font: twice the x is chip.x0 + chip.x1 - tw.
CentredLabel ==
  (n >= 1 /\ last.role = "centred") =>
    LET calls == Calls
    IN  /\ last.anchor = "la"
        /\ \E i \in 1..(n - 1) :
             /\ calls[i].role = "item"
             /\ calls[i].op = "rr"
             /\ SameSeries(calls[i], last)
             /\ calls[i].ix = last.ix /\ calls[i].iy = last.iy
             /\ last.x2 = calls[i].x0 + calls[i].x1 - textlength(last.txt, glyph)

\* a label whose centred position is a half pixel, in the second column
WitnessCentred ==
  /\ n >= 1
  /\ last.role = "centred"
  /\ glyph >= 2
  /\ last.x2 % 2 = 1
  /\ last.ix = 1

\* C8: arrow() draws the shaft from p1 to p2 and then two segments from p2,
\* each 12 pixels long whatever the length of the shaft, in the directions
\* theta + 2.6 and theta - 2.6 of the shaft direction theta (lengths and
\* angles to 1 per cent, the precision of the fixed-point arithmetic).
ArrowHead ==
  (n >= 1 /\ last.role = "head") =>
    LET calls == Calls
        shaft == calls[n - last.ix]
        dx == shaft.x1 - shaft.x0
        dy == shaft.y1 - shaft.y0
        r10 == Isqrt(100 * (dx * dx + dy * dy))
        dot == last.hx * dx + last.hy * dy
        crs == dx * last.hy - dy * last.hx
        sgn == IF last.ix = 1 THEN 1 ELSE 0 - 1
    IN  /\ last.ix \in {1, 2}
        /\ shaft.role = "shaft" /\ shaft.op = "line" /\ shaft.grp = last.grp
        /\ last.op = "line"
        /\ last.x0 = shaft.x1 /\ last.y0 = shaft.y1
        /\ last.x1 = last.x0 + RDiv(last.hx, 1000)
        /\ last.y1 = last.y0 + RDiv(last.hy, 1000)
        /\ Abs(last.hx * last.hx + last.hy * last.hy - 144000000) <= 2880000
        /\ Abs(10 * dot - 12 * Cos26 * r10) <= 120 * r10
        /\ Abs(10 * crs - sgn * 12 * Sin26 * r10) <= 120 * r10
        /\ r10 > 0

\* the second head segment of the slanted arrow between the two rows
WitnessArrowHead ==
  /\ n >= 1
  /\ last.role = "head"
  /\ last.ix = 2
  /\ Calls[n - 2].x0 # Calls[n - 2].x1
  /\ Calls[n - 2].y0 # Calls[n - 2].y1

AccentFills == {"accent", "ORANGE"}
ContrastFills == {"accent_text", "white"}
NeutralFills == {"chip_idle", "#232938", "#232730"}
MutedFills == {"muted", "MUTED"}

\* the chips issued so far for the tab the label c names
ChipsOf(c) ==
  LET calls == Calls
  IN  { calls[i] : i \in { j \in 1..(n - 1) :
          /\ IsBox(calls[j])
          /\ calls[j].tab = c.tab /\ calls[j].tix = c.tix /\ calls[j].f = c.f } }

\* the tab groups that draw a chip for every tab
ChipPerTab == {"mr.week", "ek.tabs", "em.top", "em.cta"}
\* the tab groups that draw a chip for the selected tab only
ChipForSelected == {"mr.tabs", "ek.seg"}

\* C9 as written: every tab is a rounded rect and a label; the selected
\* tab has the accent fill and a contrasting label, an unselected tab a
\* neutral rect and a muted label.
TabsAreChips ==
  (n >= 1 /\ last.tab # "" /\ last.op = "text") =>
    /\ \E c \in ChipsOf(last) : c.op = "rr"
    /\ \A c \in ChipsOf(last) :
         IF last.sel THEN c.fill \in AccentFills /\ c.sel
                     ELSE c.fill \in NeutralFills /\ ~c.sel
    /\ IF last.sel THEN last.fill \in ContrastFills ELSE last.fill \in MutedFills

\* C9: every tab has a label; the selected tab is a rounded rect with the
\* accent fill and a contrasting label; an unselected tab has a muted
\* label, over a neutral rounded rect of its own in the week strip, the
\* email top tabs and the email CTA row, and over no rect of its own in the
\* maps tab bar and the keep-sidebar segmented control.
TabsStyled ==
  (n >= 1 /\ last.tab # "" /\ last.op = "text") =>
    /\ last.tab \in ChipPerTab \cup ChipForSelected
    /\ \A c \in ChipsOf(last) : c.op = "rr" /\ c.sel = last.sel
    /\ IF last.sel
         THEN /\ Cardinality(ChipsOf(last)) = 1
              /\ \A c \in ChipsOf(last) : c.fill \in AccentFills
              /\ last.fill \in ContrastFills
         ELSE /\ last.fill \in MutedFills
              /\ IF last.tab \in ChipPerTab
                   THEN /\ Cardinality(ChipsOf(last)) = 1
                        /\ \A c \in ChipsOf(last) : c.fill \in NeutralFills
                   ELSE ChipsOf(last) = {}

\* the label of an unselected tab of the maps tab bar has been drawn
WitnessPlainTab ==
  /\ n >= 1
  /\ last.tab = "mr.tabs"
  /\ last.op = "text"
  /\ ~last.sel

\* the margin between a frame and its content: x+24 ... x+w-24
FrameMargin == 24

\* the content area of the owner of item c: its card when the series has
\* one, else its frame less the margin on the left and on the right
ContentArea(c) ==
  LET calls == Calls
      cards == { i \in 1..(n - 1) :
                   calls[i].role = "card" /\ calls[i].f = c.f /\ calls[i].grp = c.grp }
      frames == { i \in 1..(n - 1) : calls[i].role = "frame" /\ calls[i].f = c.f }
  IN  IF cards # {}
        THEN LET o == calls[CHOOSE i \in cards : TRUE]
             IN  [x0 |-> o.x0, y0 |-> o.y0, x1 |-> o.x1, y1 |-> o.y1]
        ELSE LET o == calls[CHOOSE i \in frames : TRUE]
             IN  [x0 |-> o.x0 + FrameMargin, y0 |-> o.y0,
                  x1 |-> o.x1 - FrameMargin, y1 |-> o.y1]

\* C10 as written: no item of a row or column series extends past the
\* content area of the owning frame or card along the axis of the series.
SeriesInsideContent ==
  (n >= 1 /\ last.role = "item") =>
    LET area == ContentArea(last)
    IN  /\ last.ix > 0 => area.x0 <= last.x0 /\ last.x1 <= area.x1
        /\ last.iy > 0 => area.y0 <= last.y0 /\ last.y1 <= area.y1

\* the calls that are the items of a loop that computes the position of an
\* item: rects, text lines, or the strokes of the fake map
SeriesRoles == {"item", "line", "stroke"}

\* the numbers of the calls of the series of call c among calls 1..m
SeriesIdx(c, m) ==
  LET calls == Calls
  IN  { i \in 1..m : calls[i].role = c.role /\ SameSeries(calls[i], c) }

\* the number of columns of the series of call c
Columns(c) ==
  LET calls == Calls
      cols == { calls[i].ix : i \in SeriesIdx(c, Len(calls)) }
  IN  1 + CHOOSE m \in cols : \A k \in cols : k <= m

\* the stride (x, y) of the loops that advance a running position
AccumStep(grp) ==
  CASE grp \in {"mr.pills1", "mr.pills2"} -> << MR_pillStep, 0 >>
    [] grp = "mr.people" -> << 0, MR_peopleStep >>
    [] grp = "mr.visits" -> << 0, MR_visitStep >>
    [] OTHER -> << 0, 0 >>

Accumulated == {"mr.pills1", "mr.pills2", "mr.people", "mr.visits"}

\* the loops of the maps redesign script that take the position of every
\* item from a list: the tab labels of phone() (tx) and the map pins
ListedLoop(c) == c.role = "pin" \/ (c.tab = "mr.tabs" /\ c.op = "text")
ListedIdx(c) == IF c.role = "pin" THEN c.ix ELSE c.tix - 1
SameListed(a, b) ==
  a.f = b.f /\ a.role = b.role /\ a.tab = b.tab /\ a.op = b.op /\ a.r = b.r

\* the items of a loop over listed positions are drawn in list order
ListedInOrder ==
  (n >= 1 /\ ListedLoop(last)) =>
    LET calls == Calls
        prior == { i \in 1..(n - 1) : ListedLoop(calls[i]) /\ SameListed(calls[i], last) }
    IN  { ListedIdx(calls[i]) : i \in prior } = 0..(ListedIdx(last) - 1)

\* the items of a loop over listed positions lie at a constant stride
ListedStrided ==
  (n >= 1 /\ ListedLoop(last) /\ ListedIdx(last) >= 2) =>
    LET calls == Calls
    IN  \E o, p \in 1..(n - 1) :
          /\ ListedLoop(calls[o]) /\ SameListed(calls[o], last) /\ ListedIdx(calls[o]) = 0
          /\ ListedLoop(calls[p]) /\ SameListed(calls[p], last) /\ ListedIdx(calls[p]) = 1
          /\ last.x0 = RowPos(calls[o].x0, calls[p].x0 - calls[o].x0, ListedIdx(last))
          /\ last.y0 = RowPos(calls[o].y0, calls[p].y0 - calls[o].y0, ListedIdx(last))

\* item k of a loop that computes positions is drawn at start + k * stride
\* (start the position of item 0, stride the distance of item 1 from it),
\* in collection order; the loops that advance a running x or yy place
\* item k at start + k * 162, 92 and 98
ComputedPositions ==
  (n >= 1 /\ last.role \in SeriesRoles) =>
    LET calls == Calls
        prior == SeriesIdx(last, n - 1)
        cols == Columns(last)
        lin(c) == c.iy * cols + c.ix
        upto == prior \cup {n}
    IN  /\ { lin(calls[i]) : i \in prior } = 0..(lin(last) - 1)
        /\ Cardinality(prior) = lin(last)
        /\ \E o \in upto :
             /\ calls[o].ix = 0 /\ calls[o].iy = 0
             /\ IF last.ix = 0 THEN last.x0 = calls[o].x0
                ELSE \E p \in upto :
                       /\ calls[p].ix = 1 /\ calls[p].iy = 0
                       /\ last.x0 = RowPos(calls[o].x0, calls[p].x0 - calls[o].x0, last.ix)
             /\ IF last.iy = 0 THEN last.y0 = calls[o].y0
                ELSE \E p \in upto :
                       /\ calls[p].ix = 0 /\ calls[p].iy = 1
                       /\ last.y0 = RowPos(calls[o].y0, calls[p].y0 - calls[o].y0, last.iy)
             /\ last.grp \in Accumulated =>
                  /\ last.x0 = RowPos(calls[o].x0, AccumStep(last.grp)[1], last.ix)
                  /\ last.y0 = RowPos(calls[o].y0, AccumStep(last.grp)[2], last.iy)

\* C11 as written: in every repeated-item loop item k is drawn at
\* start + k * stride, in collection order.
EveryLoopStrided == ComputedPositions /\ ListedInOrder /\ ListedStrided

\* C11: in every loop that computes the position of its items from the
\* index or from a running x or yy, item k is drawn at start + k * stride,
\* in collection order, the running loops (x += 162, yy += 92, yy += 98)
\* exactly where the index formula puts it; the two loops over listed
\* positions (tab labels, map pins) draw their items in list order.
IndexedPositions == ComputedPositions /\ ListedInOrder

\* the fourth row of the people list (yy += 92) has been drawn
WitnessAccumulated ==
  /\ n >= 1
  /\ last.role = "item"
  /\ last.grp = "mr.people"
  /\ last.iy = 3

\* the tabs of the group of call c in its frame rendered selected so far
SelectedTabs(c) ==
  LET calls == Calls
  IN  { calls[i].tix : i \in { j \in 1..n :
          /\ calls[j].tab = c.tab /\ calls[j].f = c.f /\ calls[j].sel } }

\* the labels of the tab bar of phone()
MapsTabLabels == {"Saved", "People", "Timeline"}

\* C12: in every tab group at most one tab is rendered selected; phone()
\* of the maps redesign script renders exactly one of Saved / People /
\* Timeline selected, the one selected_tab names, when selected_tab is one
\* of these labels, and none when it is not.
OneSelectedTab ==
  /\ (n >= 1 /\ last.tab # "") => Cardinality(SelectedTabs(last)) <= 1
  /\ (n >= 1 /\ last.tab = "mr.tabs" /\ last.sel) =>
       /\ last.op = "text" => last.txt \in MapsTabLabels
       /\ probe.src = "phone" => probe.arg \in MapsTabLabels
       /\ (probe.src = "phone" /\ last.op = "text") => last.txt = probe.arg
  /\ (n >= 1 /\ last.role = "title" /\ script = "maps_redesign" /\ last.f # 0) =>
       LET tabs == [last EXCEPT !.tab = "mr.tabs"]
       IN  Cardinality(SelectedTabs(tabs)) =
             IF probe.src = "phone" /\ probe.arg \notin MapsTabLabels THEN 0 ELSE 1

\* phone() has drawn its tab bar for a selected_tab that is no label
WitnessNoTabSelected ==
  /\ probe.src = "phone"
  /\ probe.arg = "Map"
  /\ n = Len(Calls)
  /\ last.role = "title"

\* the boxes of calls a and b share more than an edge
Intersects(a, b) ==
  a.x0 < b.x1 /\ b.x0 < a.x1 /\ a.y0 < b.y1 /\ b.y0 < a.y1

\* C13 as written: the full-width panel of a mockup lies entirely below or
\* above the phone frames: its rect intersects the rect of no frame.
PanelClearOfFrames ==
  (n >= 1 /\ last.role = "panel") =>
    LET calls == Calls
    IN  \A i \in 1..(n - 1) :
          calls[i].role = "frame" =>
            /\ ~Intersects(last, calls[i])
            /\ (last.y0 >= calls[i].y1 \/ last.y1 <= calls[i].y0)

\* C14: every rounded rectangle the scripts draw is a valid rect
\* (x0 < x1, y0 < y1) whose radius is at most half its width and half its
\* height.
RadiusFits ==
  (n >= 1 /\ last.op = "rr") =>
    /\ last.x0 < last.x1
    /\ last.y0 < last.y1
    /\ last.r >= 0
    /\ 2 * last.r <= last.x1 - last.x0
    /\ 2 * last.r <= last.y1 - last.y0

\* a rounded rectangle whose radius is exactly half its height
WitnessFullRadius ==
  /\ n >= 1
  /\ last.op = "rr"
  /\ 2 * last.r = last.y1 - last.y0
  /\ last.role = "notch"

\* the background rects of buttons and chips, and their labels
BackgroundRoles == {"btn", "item"}
LabelRoles == {"btnlabel", "centred", "part"}

\* the anchor of the text call t lies in the box of call b
Covers(b, t) ==
  b.x0 <= t.x0 /\ t.x0 <= b.x1 /\ b.y0 <= t.y0 /\ t.y0 <= b.y1

\* call t is a label of the button or chip whose background is call b
LabelOf(b, t) ==
  /\ t.op = "text"
  /\ t.role \in LabelRoles
  /\ t.f = b.f /\ t.grp = b.grp /\ t.ix = b.ix /\ t.iy = b.iy

\* C15 as written: the background rect of every button or chip is drawn
\* before its label, and no filled shape covers the anchor of a text label
\* drawn before it.
BackgroundBeforeLabel ==
  (n >= 1 /\ IsBox(last) /\ last.fill # "") =>
    LET calls == Calls
    IN  \A i \in 1..(n - 1) :
          calls[i].op = "text" =>
            /\ (last.role \in BackgroundRoles /\ last.grp # "") => ~LabelOf(last, calls[i])
            /\ ~Covers(last, calls[i])

\* C16: every rounded rectangle, rectangle and ellipse drawn as a child
\* of a phone frame lies inside the rect of that frame.
ChildrenInsideFrame ==
  (n >= 1 /\ IsBox(last) /\ last.f # 0 /\ last.role # "frame") =>
    LET calls == Calls
    IN  \E i \in 1..(n - 1) :
          /\ calls[i].role = "frame" /\ calls[i].f = last.f
          /\ calls[i].x0 <= last.x0 /\ last.x1 <= calls[i].x1
          /\ calls[i].y0 <= last.y0 /\ last.y1 <= calls[i].y1

\* the strip that squares the right edge of the drawer has been drawn
WitnessDrawerEdge ==
  /\ n >= 1
  /\ last.op = "rect"
  /\ last.f = 2
  /\ script = "email_keep"

=============================================================================
